---- MODULE Spec2Model ----
(***************************************************************************)
(* A model of regex_solver: the allowed-character analysis of allowed.rs   *)
(* and the Board propagation engine of main.rs.                           *)
(*                                                                         *)
(* Bytes are their ASCII codes.  Coordinates x, y and vector indices are   *)
(* 0-based as in the source; TLA+ sequences are 1-based, so the element at *)
(* source index i is s[i + 1].                                             *)
(***************************************************************************)
EXTENDS Integers, Sequences, FiniteSets, TLC

VARIABLES
    pc,                  \* position of main()
    spec,                \* the PuzzleSpec read from the puzzle file
    hints,               \* Hints::from_spec's result
    all_allowed_chars,   \* main: the universe
    row_allowed_chars,   \* main: one byte set per row
    col_allowed_chars,   \* main: one byte set per column
    board,               \* the Board
    outcome,             \* how the run ended ("running" until it has)
    event,               \* what the last call of make_progress reported
    isect,               \* the locals of allowed_char_intersection
    analysis             \* the locals of get_allowed_chars

vars == <<pc, spec, hints, all_allowed_chars, row_allowed_chars,
          col_allowed_chars, board, outcome, event, isect, analysis>>

----------------------------------------------------------------------------
(* Bytes *)

ch == [A |-> 65, B |-> 66, C |-> 67, Z |-> 90, a |-> 97, z |-> 122,
       d0 |-> 48, d1 |-> 49, d9 |-> 57, space |-> 32, tilde |-> 126,
       del |-> 127, bell |-> 7, eacute |-> 233, underscore |-> 95]

Range(s) == {s[i] : i \in 1..Len(s)}

Contains(s, b) == \E i \in 1..Len(s) : s[i] = b

Interval(lo, hi) == [i \in 1..(hi - lo + 1) |-> lo + i - 1]

\* Vec<u8>::sort
Sort(s) == SortSeq(s, LAMBDA p, q : p < q)

IsByteSet(s) == \A i \in 1..Len(s) : \A j \in 1..Len(s) : i < j => s[i] < s[j]

----------------------------------------------------------------------------
(* regex_syntax's syntax tree, as the parser returns it *)

Literal(c)           == [t |-> "Literal", c |-> c]
Dot                  == [t |-> "Dot"]
Empty                == [t |-> "Empty"]
Flags                == [t |-> "Flags"]
Assertion(kind)      == [t |-> "Assertion", kind |-> kind]
ClassUnicode         == [t |-> "ClassUnicode"]
ClassPerl(kind, neg) == [t |-> "ClassPerl", kind |-> kind, negated |-> neg]
ClassBracketed(neg, set) == [t |-> "ClassBracketed", negated |-> neg, kind |-> set]
Repetition(op, ast)  == [t |-> "Repetition", op |-> op, ast |-> ast]
Group(index, ast)    == [t |-> "Group", index |-> index, ast |-> ast]
Alternation(asts)    == [t |-> "Alternation", asts |-> asts]
Concat(asts)         == [t |-> "Concat", asts |-> asts]
\* fancy_regex only: regex_syntax has no backreferences
Backref(index)       == [t |-> "Backref", index |-> index]

\* ClassSet
SetItem(item) == [t |-> "Item", item |-> item]
SetBinaryOp   == [t |-> "BinaryOp"]

\* ClassSetItem
ItemEmpty           == [t |-> "Empty"]
ItemLiteral(c)      == [t |-> "Literal", c |-> c]
ItemRange(lo, hi)   == [t |-> "Range", start |-> lo, end |-> hi]
ItemAscii(kind)     == [t |-> "Ascii", kind |-> kind]
ItemUnicode         == [t |-> "Unicode"]
ItemPerl(kind, neg) == [t |-> "Perl", kind |-> kind, negated |-> neg]
ItemBracketed       == [t |-> "Bracketed"]
ItemUnion(items)    == [t |-> "Union", items |-> items]

Caret  == Assertion("StartLine")
Dollar == Assertion("EndLine")

----------------------------------------------------------------------------
(* allowed.rs: what bytes a pattern allows *)

\* The accumulator of the walks: the Vec<u8> built so far, or the panic that
\* ended the walk.
Acc(v) == [panic |-> FALSE, msg |-> "", v |-> v]

Panicked(msg) == [panic |-> TRUE, msg |-> msg, v |-> <<>>]

\* byte_from_literal: the byte, or -1 for a control character and -2 for a
\* character from DEL up
byte_from_literal(literal) ==
    IF literal.c < ch.space THEN -1
    ELSE IF literal.c >= ch.del THEN -2
    ELSE literal.c

LiteralPanic(b) ==
    IF b = -1 THEN Panicked("ASCII control character in regex!!!")
    ELSE Panicked("Non-ASCII-printable-character in regex!!!!!")

add_all_literal(result, literal) ==
    LET c == byte_from_literal(literal) IN
    IF result.panic THEN result
    ELSE IF c < 0 THEN LiteralPanic(c)
    ELSE IF ~Contains(result.v, c) THEN Acc(Append(result.v, c))
    ELSE result

add_literal(result, literal, universe) ==
    LET c == byte_from_literal(literal) IN
    IF result.panic THEN result
    ELSE IF c < 0 THEN LiteralPanic(c)
    ELSE IF ~Contains(result.v, c) /\ Contains(universe, c) THEN Acc(Append(result.v, c))
    ELSE result

allowed_chars_for_perlkind(kind) ==
    CASE kind = "Digit" -> Interval(ch.d0, ch.d9)
      [] kind = "Space" -> <<ch.space>>
      [] kind = "Word"  -> Interval(ch.A, ch.Z)

\* for &b in bytes { if !result.contains(&b) { result.push(b) } }
RECURSIVE PushAllNew(_, _, _)
PushAllNew(v, bytes, i) ==
    IF i > Len(bytes) THEN v
    ELSE PushAllNew(IF Contains(v, bytes[i]) THEN v ELSE Append(v, bytes[i]),
                    bytes, i + 1)

\* for &b in bytes { if !result.contains(&b) && all_allowed_chars.contains(&b) { result.push(b) } }
RECURSIVE PushAllNewIn(_, _, _, _)
PushAllNewIn(v, bytes, universe, i) ==
    IF i > Len(bytes) THEN v
    ELSE PushAllNewIn(IF ~Contains(v, bytes[i]) /\ Contains(universe, bytes[i])
                       THEN Append(v, bytes[i]) ELSE v,
                      bytes, universe, i + 1)

RECURSIVE add_allowed_chars_from_class_set_item(_, _, _)
RECURSIVE UnionItems(_, _, _, _)
add_allowed_chars_from_class_set_item(result, item, universe) ==
    IF result.panic THEN result
    ELSE CASE item.t = "Empty" -> result
      [] item.t = "Literal" -> add_all_literal(result, item)
      [] item.t = "Range" ->
            LET start == byte_from_literal([c |-> item.start])
                end   == byte_from_literal([c |-> item.end])
            IN  IF start < 0 THEN LiteralPanic(start)
                ELSE IF end < 0 THEN LiteralPanic(end)
                ELSE Acc(PushAllNewIn(result.v, Interval(start, end), universe, 1))
      [] item.t = "Ascii" -> Panicked("No ASCII classes in regex crossword ALLOWED!")
      [] item.t = "Unicode" -> Panicked("HEY! NO UNICODE CLASSES EVEN IN SETS!")
      [] item.t = "Perl" ->
            Acc(PushAllNewIn(result.v, allowed_chars_for_perlkind(item.kind), universe, 1))
      [] item.t = "Bracketed" ->
            Panicked("No nesting of brackets in brackets! That's too brackish!")
      [] item.t = "Union" -> UnionItems(result, item.items, universe, 1)

UnionItems(result, items, universe, i) ==
    IF i > Len(items) THEN result
    ELSE UnionItems(add_allowed_chars_from_class_set_item(result, items[i], universe),
                    items, universe, i + 1)

RECURSIVE add_all_allowed_chars_from_class_set_item(_, _)
RECURSIVE AllUnionItems(_, _, _)
add_all_allowed_chars_from_class_set_item(result, item) ==
    IF result.panic THEN result
    ELSE CASE item.t = "Empty" -> result
      [] item.t = "Literal" -> add_all_literal(result, item)
      [] item.t = "Range" ->
            LET start == byte_from_literal([c |-> item.start])
                end   == byte_from_literal([c |-> item.end])
            IN  IF start < 0 THEN LiteralPanic(start)
                ELSE IF end < 0 THEN LiteralPanic(end)
                ELSE Acc(PushAllNew(result.v, Interval(start, end), 1))
      [] item.t = "Ascii" -> Panicked("No ASCII classes in regex crossword ALLOWED!")
      [] item.t = "Unicode" -> Panicked("HEY! NO UNICODE CLASSES EVEN IN SETS!")
      [] item.t = "Perl" ->
            Acc(PushAllNew(result.v, allowed_chars_for_perlkind(item.kind), 1))
      [] item.t = "Bracketed" ->
            Panicked("No nesting of brackets in brackets! That's too brackish!")
      [] item.t = "Union" -> AllUnionItems(result, item.items, 1)

AllUnionItems(result, items, i) ==
    IF i > Len(items) THEN result
    ELSE AllUnionItems(add_all_allowed_chars_from_class_set_item(result, items[i]),
                       items, i + 1)

RECURSIVE add_all_allowed_chars_from_ast(_, _)
RECURSIVE AllAsts(_, _, _)
add_all_allowed_chars_from_ast(result, ast) ==
    IF result.panic THEN result
    ELSE CASE ast.t = "Alternation" -> AllAsts(result, ast.asts, 1)
      [] ast.t = "ClassUnicode" ->
            Panicked("No unicode classes in regex crossword ALLOWED!")
      [] ast.t = "ClassPerl" ->
            IF ~ast.negated
            THEN Acc(PushAllNew(result.v, allowed_chars_for_perlkind(ast.kind), 1))
            ELSE result
      [] ast.t = "ClassBracketed" ->
            IF ~ast.negated
            THEN IF ast.kind.t = "Item"
                 THEN add_all_allowed_chars_from_class_set_item(result, ast.kind.item)
                 ELSE Panicked("No binary ops in regex crossword ALLOWED!")
            ELSE result
      [] ast.t = "Concat" -> AllAsts(result, ast.asts, 1)
      [] ast.t = "Group" -> add_all_allowed_chars_from_ast(result, ast.ast)
      [] ast.t = "Literal" -> add_all_literal(result, ast)
      [] ast.t = "Repetition" -> add_all_allowed_chars_from_ast(result, ast.ast)
      [] ast.t = "Empty" -> result
      [] ast.t = "Flags" -> result
      [] ast.t = "Dot" -> result
      [] ast.t = "Assertion" -> result

AllAsts(result, asts, i) ==
    IF i > Len(asts) THEN result
    ELSE AllAsts(add_all_allowed_chars_from_ast(result, asts[i]), asts, i + 1)

RECURSIVE add_allowed_chars_from_ast(_, _, _)
RECURSIVE Asts(_, _, _, _)
add_allowed_chars_from_ast(result, ast, universe) ==
    IF result.panic THEN result
    ELSE CASE ast.t = "Alternation" -> Asts(result, ast.asts, universe, 1)
      [] ast.t = "ClassUnicode" ->
            Panicked("No unicode classes in regex crossword ALLOWED!")
      [] ast.t = "ClassPerl" ->
            IF ~ast.negated
            THEN Acc(PushAllNewIn(result.v, allowed_chars_for_perlkind(ast.kind), universe, 1))
            ELSE Acc(universe)
      [] ast.t = "ClassBracketed" ->
            IF ~ast.negated
            THEN IF ast.kind.t = "Item"
                 THEN add_allowed_chars_from_class_set_item(result, ast.kind.item, universe)
                 ELSE Panicked("No binary ops in regex crossword ALLOWED!")
            ELSE Acc(universe)
      [] ast.t = "Concat" -> Asts(result, ast.asts, universe, 1)
      [] ast.t = "Dot" -> Acc(universe)
      [] ast.t = "Group" -> add_allowed_chars_from_ast(result, ast.ast, universe)
      [] ast.t = "Literal" -> add_literal(result, ast, universe)
      [] ast.t = "Repetition" -> add_allowed_chars_from_ast(result, ast.ast, universe)
      [] ast.t = "Empty" -> result
      [] ast.t = "Flags" -> result
      [] ast.t = "Assertion" -> result

Asts(result, asts, universe, i) ==
    IF i > Len(asts) THEN result
    ELSE Asts(add_allowed_chars_from_ast(result, asts[i], universe), asts, universe, i + 1)

----------------------------------------------------------------------------
(* The hints of the puzzles, by their source text.  Of each: ast, what       *)
(* regex_syntax's parser returns for the text with every match of            *)
(* BACKREFERENCE_STRIPPING_REGEX removed, and re, what fancy_regex matches   *)
(* with for the text as written (compiles == FALSE when it rejects it).      *)

BrAB == ClassBracketed(FALSE, SetItem(ItemUnion(<<ItemLiteral(ch.A), ItemLiteral(ch.B)>>)))

Pattern(ast, re) == [ast |-> ast, compiles |-> TRUE, re |-> re]

Same(ast) == Pattern(ast, ast)

Uncompilable == [ast |-> Empty, compiles |-> FALSE, re |-> Empty]

HintCatalog ==
    [ h \in {"[A-C]+", "A.*", "(A|B)\\1*", "^[AB]$", "[^C]B*",
             "^A.$", "^A$", "^B$", "[0-1]", "\\s|\\S\\S",
             "\\pL", "[[:alpha:]]", "[A[B]]", "[A&&B]", "\\a", "\\xE9",
             "[^[:alpha:]]", "(", "B.*", "[\\S]"} |->
      CASE h = "[A-C]+" ->
             Same(Repetition("+", ClassBracketed(FALSE, SetItem(ItemRange(ch.A, ch.C)))))
        [] h = "A.*" -> Same(Concat(<<Literal(ch.A), Repetition("*", Dot)>>))
        [] h = "(A|B)\\1*" ->
             Pattern(Repetition("*", Group(1, Alternation(<<Literal(ch.A), Literal(ch.B)>>))),
                     Concat(<<Group(1, Alternation(<<Literal(ch.A), Literal(ch.B)>>)),
                              Repetition("*", Backref(1))>>))
        [] h = "^[AB]$" -> Same(Concat(<<Caret, BrAB, Dollar>>))
        [] h = "[^C]B*" ->
             Same(Concat(<<ClassBracketed(TRUE, SetItem(ItemLiteral(ch.C))),
                           Repetition("*", Literal(ch.B))>>))
        [] h = "^A.$" -> Same(Concat(<<Caret, Literal(ch.A), Dot, Dollar>>))
        [] h = "^A$" -> Same(Concat(<<Caret, Literal(ch.A), Dollar>>))
        [] h = "^B$" -> Same(Concat(<<Caret, Literal(ch.B), Dollar>>))
        [] h = "[0-1]" -> Same(ClassBracketed(FALSE, SetItem(ItemRange(ch.d0, ch.d1))))
        [] h = "\\s|\\S\\S" ->
             Same(Alternation(<<ClassPerl("Space", FALSE),
                                Concat(<<ClassPerl("Space", TRUE), ClassPerl("Space", TRUE)>>)>>))
        [] h = "\\pL" -> Same(ClassUnicode)
        [] h = "[[:alpha:]]" -> Same(ClassBracketed(FALSE, SetItem(ItemAscii("alpha"))))
        [] h = "[A[B]]" ->
             Same(ClassBracketed(FALSE, SetItem(ItemUnion(<<ItemLiteral(ch.A), ItemBracketed>>))))
        [] h = "[A&&B]" -> Same(ClassBracketed(FALSE, SetBinaryOp))
        [] h = "\\a" -> Same(Literal(ch.bell))
        [] h = "\\xE9" -> Same(Literal(ch.eacute))
        [] h = "[^[:alpha:]]" -> Same(ClassBracketed(TRUE, SetItem(ItemAscii("alpha"))))
        [] h = "(" -> Uncompilable
        [] h = "B.*" -> Same(Concat(<<Literal(ch.B), Repetition("*", Dot)>>))
        [] h = "[\\S]" -> Same(ClassBracketed(FALSE, SetItem(ItemPerl("Space", TRUE)))) ]

\* JSON null, in a hint array
None == "null"

----------------------------------------------------------------------------
(* fancy_regex: Regex::new and Regex::is_match *)

\* Regex::new(&format!("^{}$", code)): the anchors bind tighter than a top
\* level alternation.
Anchored(re) ==
    IF re.t = "Alternation"
    THEN LET n == Len(re.asts) IN
         Alternation([i \in 1..n |->
            IF i = 1 /\ i = n THEN Concat(<<Caret, re.asts[i], Dollar>>)
            ELSE IF i = 1 THEN Concat(<<Caret, re.asts[i]>>)
            ELSE IF i = n THEN Concat(<<re.asts[i], Dollar>>)
            ELSE re.asts[i]])
    ELSE Concat(<<Caret, re, Dollar>>)

PerlMatches(kind, c) ==
    CASE kind = "Digit" -> c \in ch.d0..ch.d9
      [] kind = "Space" -> c \in {ch.space, 9, 10, 11, 12, 13}
      [] kind = "Word"  -> \/ c \in ch.d0..ch.d9 \/ c \in ch.A..ch.Z
                           \/ c \in ch.a..ch.z \/ c = ch.underscore

RECURSIVE ItemMatches(_, _)
ItemMatches(item, c) ==
    CASE item.t = "Empty" -> FALSE
      [] item.t = "Literal" -> c = item.c
      [] item.t = "Range" -> item.start <= c /\ c <= item.end
      [] item.t = "Ascii" -> c \in ch.A..ch.Z \/ c \in ch.a..ch.z
      [] item.t = "Perl" -> PerlMatches(item.kind, c) # item.negated
      [] item.t = "Union" -> \E i \in 1..Len(item.items) : ItemMatches(item.items[i], c)

\* A captured group is the text it matched last; <<-1>> before it has matched.
NoCaptures == [g \in 1..1 |-> <<-1>>]

StartsWithAt(s, pos, w) ==
    /\ pos + Len(w) <= Len(s)
    /\ \A i \in 1..Len(w) : s[pos + i] = w[i]

\* The matches of re in s that start at a configuration [pos, caps]: the
\* configurations they end in.
RECURSIVE Ends(_, _, _)
RECURSIVE EndsOfConcat(_, _, _, _)
RECURSIVE EndsOfStar(_, _, _, _)
Ends(re, s, cf) ==
    LET next == IF cf.pos < Len(s) THEN s[cf.pos + 1] ELSE -1
        step == {[pos |-> cf.pos + 1, caps |-> cf.caps]}
    IN
    CASE re.t = "Empty" -> {cf}
      [] re.t = "Literal" -> IF next = re.c THEN step ELSE {}
      [] re.t = "Dot" -> IF next >= 0 /\ next # 10 THEN step ELSE {}
      [] re.t = "Assertion" ->
            IF re.kind = "StartLine"
            THEN IF cf.pos = 0 THEN {cf} ELSE {}
            ELSE IF cf.pos = Len(s) THEN {cf} ELSE {}
      [] re.t = "ClassPerl" ->
            IF next >= 0 /\ (PerlMatches(re.kind, next) # re.negated) THEN step ELSE {}
      [] re.t = "ClassBracketed" ->
            IF next >= 0 /\ (ItemMatches(re.kind.item, next) # re.negated) THEN step ELSE {}
      [] re.t = "Concat" -> EndsOfConcat(re.asts, 1, s, {cf})
      [] re.t = "Alternation" ->
            UNION {Ends(re.asts[i], s, cf) : i \in 1..Len(re.asts)}
      [] re.t = "Group" ->
            {[pos |-> e.pos,
              caps |-> [e.caps EXCEPT ![re.index] = SubSeq(s, cf.pos + 1, e.pos)]] :
                e \in Ends(re.ast, s, cf)}
      [] re.t = "Backref" ->
            LET w == cf.caps[re.index] IN
            IF w # <<-1>> /\ StartsWithAt(s, cf.pos, w)
            THEN {[pos |-> cf.pos + Len(w), caps |-> cf.caps]} ELSE {}
      [] re.t = "Repetition" ->
            LET once == Ends(re.ast, s, cf) IN
            CASE re.op = "?" -> {cf} \cup once
              [] re.op = "*" -> EndsOfStar(re.ast, s, {cf}, {cf})
              [] re.op = "+" -> EndsOfStar(re.ast, s, once, once)

EndsOfConcat(asts, i, s, cfs) ==
    IF i > Len(asts) THEN cfs
    ELSE EndsOfConcat(asts, i + 1, s, UNION {Ends(asts[i], s, cf) : cf \in cfs})

\* all: the configurations reached so far; frontier: those not yet extended
EndsOfStar(re, s, all, frontier) ==
    LET more == UNION {Ends(re, s, cf) : cf \in frontier} \ all IN
    IF more = {} THEN all ELSE EndsOfStar(re, s, all \cup more, more)

\* Regex::is_match: a match starting anywhere
is_match(re, s) ==
    \E start \in 0..Len(s) : Ends(re, s, [pos |-> start, caps |-> NoCaptures]) # {}

----------------------------------------------------------------------------
(* allowed.rs, continued *)

\* add_all_allowed_chars: parser.parse(..).unwrap() and the walk, over the
\* hints of one edge
RECURSIVE add_all_allowed_chars(_, _, _)
add_all_allowed_chars(result, edge, i) ==
    IF ~edge.some \/ i > Len(edge.v) THEN result
    ELSE add_all_allowed_chars(
            IF edge.v[i] = None THEN result
            ELSE add_all_allowed_chars_from_ast(result, HintCatalog[edge.v[i]].ast),
            edge, i + 1)

get_all_allowed_chars(puzzle) ==
    LET top    == add_all_allowed_chars(Acc(<<>>), puzzle.top_hints, 1)
        bottom == add_all_allowed_chars(top, puzzle.bottom_hints, 1)
        left   == add_all_allowed_chars(bottom, puzzle.left_hints, 1)
        right  == add_all_allowed_chars(left, puzzle.right_hints, 1)
    IN  IF right.panic THEN right ELSE Acc(Sort(right.v))

get_allowed_chars(hint, universe) ==
    LET result == add_allowed_chars_from_ast(Acc(<<>>), HintCatalog[hint].ast, universe)
    IN  IF result.panic THEN result ELSE Acc(Sort(result.v))

\* IntersectionTurn, dropping the greater head instead of the smaller
IntersectionTurnGreater(st) ==
    LET ac == st.a[1]
        bc == st.b[1]
    IN  IF ac = bc
        THEN [st EXCEPT !.a = Tail(st.a), !.b = Tail(st.b), !.result = Append(st.result, ac)]
        ELSE IF ac < bc THEN [st EXCEPT !.b = Tail(st.b)]
        ELSE IF bc < ac THEN [st EXCEPT !.a = Tail(st.a)]
        ELSE st

\* One turn of the loop of allowed_char_intersection
IntersectionTurn(st) ==
    LET ac == st.a[1]
        bc == st.b[1]
    IN  IF ac = bc
        THEN [st EXCEPT !.a = Tail(st.a), !.b = Tail(st.b), !.result = Append(st.result, ac)]
        ELSE IF ac < bc THEN [st EXCEPT !.a = Tail(st.a)]
        ELSE IF bc < ac THEN [st EXCEPT !.b = Tail(st.b)]
        ELSE st

RECURSIVE IntersectionLoop(_)
IntersectionLoop(st) ==
    IF st.a # <<>> /\ st.b # <<>> THEN IntersectionLoop(IntersectionTurn(st))
    ELSE st.result

allowed_char_intersection(a, b) == IntersectionLoop([a |-> a, b |-> b, result |-> <<>>])

\* get_both_allowed_chars, taking the first hint alone when there are two
get_first_allowed_chars(hint_a, hint_b, universe) ==
    IF hint_a = None /\ hint_b = None THEN Panicked("No hint for this row/column!?")
    ELSE IF hint_a = None THEN get_allowed_chars(hint_b, universe)
    ELSE get_allowed_chars(hint_a, universe)

get_both_allowed_chars(hint_a, hint_b, universe) ==
    IF hint_a = None /\ hint_b = None THEN Panicked("No hint for this row/column!?")
    ELSE IF hint_b = None THEN get_allowed_chars(hint_a, universe)
    ELSE IF hint_a = None THEN get_allowed_chars(hint_b, universe)
    ELSE LET result_a == get_allowed_chars(hint_a, universe)
             result_b == get_allowed_chars(hint_b, universe)
         IN  IF result_a.panic THEN result_a
             ELSE IF result_b.panic THEN result_b
             ELSE Acc(allowed_char_intersection(result_a.v, result_b.v))

----------------------------------------------------------------------------
(* main.rs: Hints *)

\* Option<Vec<Option<String>>>
NoArray == [some |-> FALSE, v |-> <<>>]

Array(v) == [some |-> TRUE, v |-> v]

OptLen(edge) == IF edge.some THEN Len(edge.v) ELSE 0

Max(p, q) == IF p >= q THEN p ELSE q

\* Vec::resize(length, None)
Resize(v, length) == [i \in 1..length |-> IF i <= Len(v) THEN v[i] ELSE None]

\* A compiled hint is held by its source text.
collect_hints(src, length) ==
    IF ~src.some THEN [ok |-> TRUE, v |-> [i \in 1..length |-> None]]
    ELSE IF \E i \in 1..Len(src.v) : src.v[i] # None /\ ~HintCatalog[src.v[i]].compiles
    THEN [ok |-> FALSE, v |-> <<>>]
    ELSE [ok |-> TRUE, v |-> Resize(src.v, length)]

NoHints == [top |-> <<>>, bottom |-> <<>>, left |-> <<>>, right |-> <<>>]

Running == [kind |-> "running", msg |-> ""]

Err(msg) == [kind |-> "Err", msg |-> msg]

Panic(msg) == [kind |-> "panic", msg |-> msg]

Exit1(msg) == [kind |-> "exit", msg |-> msg]

from_spec(puzzle) ==
    LET top_len    == OptLen(puzzle.top_hints)
        bottom_len == OptLen(puzzle.bottom_hints)
        left_len   == OptLen(puzzle.left_hints)
        right_len  == OptLen(puzzle.right_hints)
        top    == collect_hints(puzzle.top_hints, puzzle.width)
        bottom == collect_hints(puzzle.bottom_hints, puzzle.width)
        left   == collect_hints(puzzle.left_hints, puzzle.height)
        right  == collect_hints(puzzle.right_hints, puzzle.height)
    IN  IF Max(top_len, bottom_len) # puzzle.width
        THEN [res |-> Err("Puzzle does not have a vertical hint for every column!"),
              hints |-> NoHints]
        ELSE IF Max(left_len, right_len) # puzzle.height
        THEN [res |-> Err("Puzzle does not have a horizontal hint for every row!"),
              hints |-> NoHints]
        ELSE IF ~top.ok THEN [res |-> Err("Couldn't compile top hint"), hints |-> NoHints]
        ELSE IF ~bottom.ok THEN [res |-> Err("Couldn't compile bottom hint"), hints |-> NoHints]
        ELSE IF ~left.ok THEN [res |-> Err("Couldn't compile left hint"), hints |-> NoHints]
        ELSE IF ~right.ok THEN [res |-> Err("Couldn't compile right hint"), hints |-> NoHints]
        ELSE [res |-> Running,
              hints |-> [top |-> top.v, bottom |-> bottom.v, left |-> left.v, right |-> right.v]]

\* hint.is_match(as_str).unwrap()
hint_is_match(hint, as_str) == is_match(Anchored(HintCatalog[hint].re), as_str)

\* spec.xxx_hints.as_ref().and_then(|x| x.get(i)).and_then(|x| x.as_ref())
HintAt(edge, i) == IF edge.some /\ i < Len(edge.v) THEN edge.v[i + 1] ELSE None

----------------------------------------------------------------------------
(* main.rs: Board *)

NoBoard == [width |-> 0, height |-> 0, allowed_chars |-> <<>>, undecided_cells |-> <<>>,
            tree_complexity |-> <<>>, progress_free_cells |-> <<>>]

NoEvent == [what |-> "", is_column |-> FALSE, x |-> 0, y |-> 0, sets |-> <<>>]

Event(what, is_column, x, y, sets) ==
    [what |-> what, is_column |-> is_column, x |-> x, y |-> y, sets |-> sets]

\* Board::allowed_chars
allowed_chars(b, x, y) == b.allowed_chars[x + y * b.width + 1]

\* Board::tree_complexity
tree_complexity(b, x, y) == b.tree_complexity[x + y * b.width + 1]

\* (a .. b).map(len).fold(first, |a, len| a * len)
RECURSIVE Fold(_, _, _)
Fold(first, lens, i) ==
    IF i > Len(lens) THEN first ELSE Fold(first * lens[i], lens, i + 1)

\* The (row_complexity, col_complexity) both Board::new and
\* recalculate_tree_complexity compute for a cell
Complexities(b, x, y) ==
    LET own == Len(allowed_chars(b, x, y))
        row_complexity == Fold(own, [i \in 1..b.width |-> Len(allowed_chars(b, i - 1, y))], 1)
        col_complexity == Fold(own, [i \in 1..b.height |-> Len(allowed_chars(b, x, i - 1))], 1)
    IN  <<row_complexity, col_complexity>>

\* The cells in the order of the loops: y outside, x inside
CellX(k, width) == k % width

CellY(k, width) == k \div width

\* PushedUndecided, counting the decided cells in
PushedUnlessEmpty(allowed) == Len(allowed) >= 1

\* else { board.undecided_cells.push((x, y)) }: neither empty nor decided
PushedUndecided(allowed) == Len(allowed) > 1

\* FirstExit, with the loops running backwards
LastExit(empties) == CHOOSE k \in empties : \A o \in empties : k >= o

\* The cell at which the loops of Board::new exit: the first they reach
FirstExit(empties) == CHOOSE k \in empties : \A o \in empties : k <= o

\* Board::new: the Board, or the cell that had no possibilities
Board_new(width, height, rows, cols) ==
    LET cells   == [k \in 1..(width * height) |->
                       allowed_char_intersection(rows[CellY(k - 1, width) + 1],
                                                 cols[CellX(k - 1, width) + 1])]
        empties == {k \in 1..(width * height) : Len(cells[k]) = 0}
        first   == FirstExit(empties)
        coords  == [k \in 1..(width * height) |-> <<CellX(k - 1, width), CellY(k - 1, width)>>]
        filled  == [width |-> width, height |-> height, allowed_chars |-> cells,
                    undecided_cells |->
                        SelectSeq(coords, LAMBDA c : PushedUndecided(cells[c[1] + c[2] * width + 1])),
                    tree_complexity |-> <<>>, progress_free_cells |-> <<>>]
    IN  IF empties # {}
        THEN [ok |-> FALSE, board |-> NoBoard,
              event |-> Event("had no possibilities", FALSE,
                              CellX(first - 1, width), CellY(first - 1, width),
                              <<rows[CellY(first - 1, width) + 1],
                                cols[CellX(first - 1, width) + 1]>>)]
        ELSE [ok |-> TRUE,
              board |-> [filled EXCEPT !.tree_complexity =
                            [k \in 1..(width * height) |->
                                IF Len(cells[k]) = 1 THEN <<1, 1>>
                                ELSE Complexities(filled, CellX(k - 1, width),
                                                  CellY(k - 1, width))]],
              event |-> NoEvent]

recalculate_tree_complexity(b, x, y) ==
    [b EXCEPT !.tree_complexity[x + y * b.width + 1] = Complexities(b, x, y)]

still_undecided(b) == Len(b.undecided_cells) > 0

\* The order of (bool, usize, usize)
TripleLess(p, q) ==
    \/ ~p[1] /\ q[1]
    \/ p[1] = q[1] /\ p[2] < q[2]
    \/ p[1] = q[1] /\ p[2] = q[2] /\ p[3] < q[3]

\* slice::binary_search: Ok(index) or Err(where to insert)
RECURSIVE BinarySearch(_, _, _, _)
BinarySearch(list, key, lo, hi) ==
    IF lo >= hi THEN [found |-> FALSE, index |-> lo]
    ELSE LET mid == lo + ((hi - lo) \div 2) IN
         IF list[mid + 1] = key THEN [found |-> TRUE, index |-> mid]
         ELSE IF TripleLess(list[mid + 1], key) THEN BinarySearch(list, key, mid + 1, hi)
         ELSE BinarySearch(list, key, lo, mid)

binary_search(list, key) == BinarySearch(list, key, 0, Len(list))

\* Insert, at the end whatever the index
InsertAtEnd(list, index, e) == Append(list, e)

\* Insert, without the insert
InsertNothing(list, index, e) == list

\* Vec::insert
Insert(list, index, e) == SubSeq(list, 1, index) \o <<e>> \o SubSeq(list, index + 1, Len(list))

\* Remove, of the first element whatever the index
RemoveFirst(list, index) == SubSeq(list, 2, Len(list))

\* Vec::remove
Remove(list, index) == SubSeq(list, 1, index) \o SubSeq(list, index + 2, Len(list))

NoChoice == [some |-> FALSE, complexity |-> 0, is_column |-> FALSE, index |-> 0, x |-> 0, y |-> 0]

Choice(complexity, is_column, index, x, y) ==
    [some |-> TRUE, complexity |-> complexity, is_column |-> is_column, index |-> index,
     x |-> x, y |-> y]

\* maybe_best_choice, without the look at the blacklist
maybe_any_choice(b, best_choice, candidate) ==
    IF best_choice.some /\ best_choice.complexity < candidate.complexity
    THEN best_choice
    ELSE candidate

\* maybe_best_choice, with the comparison turned round
maybe_worst_choice(b, best_choice, candidate) ==
    IF binary_search(b.progress_free_cells, <<candidate.is_column, candidate.x, candidate.y>>).found
    THEN best_choice
    ELSE IF best_choice.some /\ best_choice.complexity > candidate.complexity
    THEN best_choice
    ELSE candidate

maybe_best_choice(b, best_choice, candidate) ==
    IF binary_search(b.progress_free_cells, <<candidate.is_column, candidate.x, candidate.y>>).found
    THEN best_choice
    ELSE IF best_choice.some /\ best_choice.complexity < candidate.complexity
    THEN best_choice
    ELSE candidate

\* make_progress, lines 204-215: the scan of the undecided cells
RECURSIVE BestChoice(_, _, _)
BestChoice(b, best_choice, index) ==
    IF index >= Len(b.undecided_cells) THEN best_choice
    ELSE LET x == b.undecided_cells[index + 1][1]
             y == b.undecided_cells[index + 1][2]
             complexity == tree_complexity(b, x, y)
             row_choice == Choice(complexity[1], FALSE, index, x, y)
             col_choice == Choice(complexity[2], TRUE, index, x, y)
         IN  BestChoice(b, maybe_best_choice(b, maybe_best_choice(b, best_choice, row_choice),
                                             col_choice),
                        index + 1)

----------------------------------------------------------------------------
(* main.rs: make_progress *)

\* Try this string! (lines 244-257, 302-315)
Allowed(buf, hint_a, hint_b) ==
    /\ hint_a # None => hint_is_match(hint_a, buf)
    /\ hint_b # None => hint_is_match(hint_b, buf)

\* NextPossibility, without the carry into the next open cell
RECURSIVE NextOfFirstOpenCell(_, _, _, _, _)
NextOfFirstOpenCell(possibilities, open_cell, big_number, buf, i) ==
    IF i >= Len(possibilities) THEN [more |-> FALSE, big_number |-> big_number, buf |-> buf]
    ELSE IF ~open_cell[i + 1]
    THEN NextOfFirstOpenCell(possibilities, open_cell, big_number, buf, i + 1)
    ELSE LET nu   == big_number[i + 1] + 1
             big  == [big_number EXCEPT ![i + 1] = IF nu >= Len(possibilities[i + 1])
                                                    THEN 0 ELSE nu]
             nbuf == [buf EXCEPT ![i + 1] = possibilities[i + 1][big[i + 1] + 1]]
         IN  [more |-> nu < Len(possibilities[i + 1]), big_number |-> big, buf |-> nbuf]

\* Move on to the next possibility... (lines 264-276, 322-334): more is FALSE
\* when we ran off the end of the big_number
RECURSIVE NextPossibility(_, _, _, _, _)
NextPossibility(possibilities, open_cell, big_number, buf, i) ==
    IF i >= Len(possibilities) THEN [more |-> FALSE, big_number |-> big_number, buf |-> buf]
    ELSE IF ~open_cell[i + 1]
    THEN NextPossibility(possibilities, open_cell, big_number, buf, i + 1)
    ELSE LET nu   == big_number[i + 1] + 1
             big  == [big_number EXCEPT ![i + 1] = IF nu >= Len(possibilities[i + 1])
                                                    THEN 0 ELSE nu]
             nbuf == [buf EXCEPT ![i + 1] = possibilities[i + 1][big[i + 1] + 1]]
         IN  IF nu < Len(possibilities[i + 1])
             THEN [more |-> TRUE, big_number |-> big, buf |-> nbuf]
             ELSE NextPossibility(possibilities, open_cell, big, nbuf, i + 1)

\* Trying, giving up after the first string
TryingFirst(possibilities, open_cell, big_number, buf, hint_a, hint_b) ==
    Allowed(buf, hint_a, hint_b)

\* 'trying_col / 'trying_row: any_allowed when the loop ends
RECURSIVE Trying(_, _, _, _, _, _)
Trying(possibilities, open_cell, big_number, buf, hint_a, hint_b) ==
    IF Allowed(buf, hint_a, hint_b) THEN TRUE
    ELSE LET next == NextPossibility(possibilities, open_cell, big_number, buf, 0) IN
         IF next.more
         THEN Trying(possibilities, open_cell, next.big_number, next.buf, hint_a, hint_b)
         ELSE FALSE

\* The strings 'trying_col / 'trying_row tests, from buf on, until a string is
\* allowed or the big_number runs off its end
RECURSIVE Tested(_, _, _, _, _, _)
Tested(possibilities, open_cell, big_number, buf, hint_a, hint_b) ==
    IF Allowed(buf, hint_a, hint_b) THEN {buf}
    ELSE LET next == NextPossibility(possibilities, open_cell, big_number, buf, 0) IN
         IF next.more
         THEN {buf} \cup Tested(possibilities, open_cell, next.big_number, next.buf,
                                hint_a, hint_b)
         ELSE {buf}

\* Possible, taking the first cell of the line for the pivot
PossibleOfFirstCell(possibilities, pivot) == possibilities[1]

\* let possible = self.allowed_chars(x, y): the cell at pivot of the line
Possible(possibilities, pivot) == possibilities[pivot + 1]

\* Brute force that cell: the candidates of the cell at pivot of the line that
\* some string of the line is allowed with
BruteForce(possibilities, pivot, hint_a, hint_b) ==
    LET n         == Len(possibilities)
        possible  == Possible(possibilities, pivot)
        open_cell == [i \in 1..n |-> i - 1 # pivot /\ Len(possibilities[i]) > 1]
    IN  SelectSeq(possible, LAMBDA c :
            Trying(possibilities, open_cell, [i \in 1..n |-> 0],
                   [i \in 1..n |-> IF i - 1 = pivot THEN c ELSE possibilities[i][1]],
                   hint_a, hint_b))

\* it's a column
really_possible_col(b, h, x, y) ==
    BruteForce([i \in 1..b.height |-> allowed_chars(b, x, i - 1)], y,
               h.top[x + 1], h.bottom[x + 1])

\* it's a row
really_possible_row(b, h, x, y) ==
    BruteForce([i \in 1..b.width |-> allowed_chars(b, i - 1, y)], x,
               h.left[y + 1], h.right[y + 1])

\* for y in 0 .. self.height { self.recalculate_tree_complexity(x, y) }
RECURSIVE RecalculateColumn(_, _, _)
RecalculateColumn(b, x, y) ==
    IF y >= b.height THEN b
    ELSE RecalculateColumn(recalculate_tree_complexity(b, x, y), x, y + 1)

\* for x in 0 .. self.width { self.recalculate_tree_complexity(x, y) }
RECURSIVE RecalculateRow(_, _, _)
RecalculateRow(b, x, y) ==
    IF x >= b.width THEN b
    ELSE RecalculateRow(recalculate_tree_complexity(b, x, y), x + 1, y)

Step(found, b, res, ev) == [found |-> found, board |-> b, res |-> res, event |-> ev]

\* NoProgress, starting the blacklist afresh
NoProgressForgetful(b, is_column, x, y) ==
    Step(TRUE, [b EXCEPT !.progress_free_cells = <<<<is_column, x, y>>>>], Running,
         Event("?", is_column, x, y, <<>>))

\* really_possible.len() == possible.len(): add to the blacklist
NoProgress(b, is_column, x, y) ==
    LET at == binary_search(b.progress_free_cells, <<is_column, x, y>>) IN
    IF at.found
    THEN Step(TRUE, b, Panic("If it were already there, why'd we try it!?"),
              Event("?", is_column, x, y, <<>>))
    ELSE Step(TRUE,
              [b EXCEPT !.progress_free_cells = Insert(@, at.index, <<is_column, x, y>>)],
              Running, Event("?", is_column, x, y, <<>>))

\* ClearedBlacklist, without the clear
StaleBlacklist(b) == b

\* self.progress_free_cells.clear(); // no longer accurate!
ClearedBlacklist(b) == [b EXCEPT !.progress_free_cells = <<>>]

\* Decide, without the remove
DecideNothing(undecided_cells, index, really_possible) == undecided_cells

\* self.undecided_cells.remove(index), when one possibility is left
Decide(undecided_cells, index, really_possible) ==
    IF Len(really_possible) = 1 THEN Remove(undecided_cells, index) ELSE undecided_cells

\* Progress, without the exit on an empty really_possible
ProgressPastEmpty(b, index, is_column, x, y, really_possible) ==
    LET cleared == ClearedBlacklist(b)
        stored  == [cleared EXCEPT
                       !.undecided_cells = Decide(@, index, really_possible),
                       !.allowed_chars[x + y * b.width + 1] = really_possible]
    IN  Step(TRUE,
             IF is_column THEN RecalculateColumn(stored, x, 0)
             ELSE RecalculateRow(stored, 0, y),
             Running,
             Event(IF Len(really_possible) = 1 THEN "decided" ELSE "pruned",
                   is_column, x, y, <<>>))

\* really_possible.len() != possible.len()
Progress(b, index, is_column, x, y, really_possible) ==
    LET cleared == ClearedBlacklist(b)
        stored  == [cleared EXCEPT
                       !.undecided_cells = Decide(@, index, really_possible),
                       !.allowed_chars[x + y * b.width + 1] = really_possible]
    IN  IF Len(really_possible) = 0
        THEN Step(TRUE, cleared, Exit1("ran out of possibilities!"),
                  Event("0", is_column, x, y, <<allowed_chars(b, x, y)>>))
        ELSE Step(TRUE,
                  IF is_column THEN RecalculateColumn(stored, x, 0)
                  ELSE RecalculateRow(stored, 0, y),
                  Running,
                  Event(IF Len(really_possible) = 1 THEN "decided" ELSE "pruned",
                        is_column, x, y, <<>>))

\* Process, blacklisting the target without the brute force
ProcessWithoutCheck(b, h, best_choice) ==
    NoProgress(b, best_choice.is_column, best_choice.x, best_choice.y)

\* make_progress from line 217 on: the target is chosen
Process(b, h, best_choice) ==
    LET x == best_choice.x
        y == best_choice.y
        possible == allowed_chars(b, x, y)
        really_possible == IF best_choice.is_column THEN really_possible_col(b, h, x, y)
                           ELSE really_possible_row(b, h, x, y)
    IN  IF Len(really_possible) = Len(possible)
        THEN NoProgress(b, best_choice.is_column, x, y)
        ELSE Progress(b, best_choice.index, best_choice.is_column, x, y, really_possible)

make_progress(b, h) ==
    LET best_choice == BestChoice(b, NoChoice, 0)
    IN  IF ~best_choice.some THEN Step(FALSE, b, Running, Event("stumped", FALSE, 0, 0, <<>>))
        ELSE Process(b, h, best_choice)

\* main, lines 463-470: the loop, to its end
RECURSIVE main_loop(_, _)
main_loop(b, h) ==
    IF ~still_undecided(b)
    THEN [outcome |-> [kind |-> "Ok", msg |-> "Solved it!"], board |-> b]
    ELSE LET r == make_progress(b, h) IN
         IF ~r.found
         THEN [outcome |-> Err("We couldn't make any more progress. Stumped!"), board |-> b]
         ELSE IF r.res # Running THEN [outcome |-> r.res, board |-> r.board]
         ELSE main_loop(r.board, h)

----------------------------------------------------------------------------
(* The puzzle files *)

MaxSide == 3

MaxCells == 4

MaxSetLen == 3

Puzzle(width, height, top, bottom, left, right) ==
    [width |-> width, height |-> height, top_hints |-> top, bottom_hints |-> bottom,
     left_hints |-> left, right_hints |-> right]

Arrays(length, entries) == {Array(v) : v \in [1..length -> entries]}

Dims == {d \in (1..MaxSide) \X (1..MaxSide) : d[1] * d[2] <= MaxCells}

SmallDims == {<<1, 1>>, <<2, 1>>, <<1, 2>>}

\* Hints that lines of any length can match
LineHints == {"[A-C]+", "A.*", "(A|B)\\1*", "[^C]B*"}

\* Hints for lines of one or two cells
ShortHints == {"^A.$", "^A$", "^B$", "^[AB]$", "[0-1]", "\\s|\\S\\S"}

\* Hints the analysis or the compiler may reject, and a negated class in a
\* bracket
OddHints == {"\\pL", "[[:alpha:]]", "[A[B]]", "[A&&B]", "\\a", "\\xE9", "[^[:alpha:]]", "(",
             "[\\S]"}

\* One hint a line, on the top and left edges
OneHintPuzzles(dims, entries) ==
    UNION {{Puzzle(d[1], d[2], top, NoArray, left, NoArray) :
                top \in Arrays(d[1], entries), left \in Arrays(d[2], entries)} : d \in dims}

\* Hints on opposite edges of a line
TwoHintPuzzles ==
    UNION {{Puzzle(width, 1, top, bottom, left, right) :
                top \in Arrays(width, {"[A-C]+", "A.*"}),
                bottom \in {NoArray} \cup Arrays(width, {"^[AB]$", "[^C]B*", None}),
                left \in Arrays(1, {"[A-C]+", "(A|B)\\1*"}),
                right \in {NoArray} \cup Arrays(1, {"A.*", "^[AB]$", None})} :
           width \in 1..2}

\* Hint arrays that are absent, short, long or have absent entries
EdgeShapes(length) ==
    {NoArray} \cup UNION {Arrays(n, {"[A-C]+", None}) : n \in 0..(length + 1)}

ShapePuzzles ==
    UNION {{Puzzle(n, 1, top, bottom, Array(<<"[A-C]+">>), NoArray) :
                top \in EdgeShapes(n), bottom \in EdgeShapes(n)} : n \in 1..2}
    \cup
    UNION {{Puzzle(1, n, Array(<<"[A-C]+">>), NoArray, left, right) :
                left \in EdgeShapes(n), right \in EdgeShapes(n)} : n \in 1..2}

PuzzleSpecs ==
    OneHintPuzzles(Dims, LineHints)
    \cup OneHintPuzzles(SmallDims, ShortHints)
    \cup OneHintPuzzles(SmallDims, OddHints \cup {"[A-C]+"})
    \cup TwoHintPuzzles
    \cup ShapePuzzles

NoPuzzle == Puzzle(0, 0, NoArray, NoArray, NoArray, NoArray)

ByteSets ==
    {s \in UNION {[1..n -> {ch.space, ch.d0, ch.A, ch.B, ch.C}] : n \in 0..MaxSetLen} :
        IsByteSet(s)}

NoAnalysis == [hint |-> <<>>, universe |-> <<>>, stripped_hint |-> <<>>, ast |-> Empty,
               result |-> Acc(<<>>)]

----------------------------------------------------------------------------
(* main *)

Init ==
    /\ pc = "from_spec"
    /\ spec \in PuzzleSpecs
    /\ hints = NoHints
    /\ all_allowed_chars = <<>>
    /\ row_allowed_chars = <<>>
    /\ col_allowed_chars = <<>>
    /\ board = NoBoard
    /\ outcome = Running
    /\ event = NoEvent
    /\ isect = [a |-> <<>>, b |-> <<>>, result |-> <<>>, arg_a |-> <<>>, arg_b |-> <<>>]
    /\ analysis = NoAnalysis

\* let hints = Hints::from_spec(&spec)?;
FromSpec ==
    /\ pc = "from_spec"
    /\ LET r == from_spec(spec) IN
        /\ hints' = r.hints
        /\ outcome' = r.res
        /\ pc' = IF r.res = Running THEN "get_all_allowed_chars" ELSE "done"
    /\ UNCHANGED <<spec, all_allowed_chars, row_allowed_chars, col_allowed_chars, board,
                   event, isect, analysis>>

\* let all_allowed_chars = get_all_allowed_chars(&spec)?;
GetAllAllowedChars ==
    /\ pc = "get_all_allowed_chars"
    /\ LET r == get_all_allowed_chars(spec) IN
        /\ all_allowed_chars' = r.v
        /\ outcome' = IF r.panic THEN Panic(r.msg) ELSE Running
        /\ pc' = IF r.panic THEN "done" ELSE "row_allowed_chars"
    /\ UNCHANGED <<spec, hints, row_allowed_chars, col_allowed_chars, board, event, isect, analysis>>

\* The first panic of a map over the lines, if any
FirstPanic(results) ==
    IF \E i \in 1..Len(results) : results[i].panic
    THEN LET i == CHOOSE i \in 1..Len(results) :
                    results[i].panic /\ \A j \in 1..(i - 1) : ~results[j].panic
         IN  Panic(results[i].msg)
    ELSE Running

\* let row_allowed_chars = (0 .. spec.height).map(..).collect();
RowAllowedChars ==
    /\ pc = "row_allowed_chars"
    /\ LET r == [i \in 1..spec.height |->
                    get_both_allowed_chars(HintAt(spec.left_hints, i - 1),
                                           HintAt(spec.right_hints, i - 1),
                                           all_allowed_chars)]
       IN
        /\ outcome' = FirstPanic(r)
        /\ row_allowed_chars' = IF FirstPanic(r) = Running
                                THEN [i \in 1..spec.height |-> r[i].v] ELSE <<>>
        /\ pc' = IF FirstPanic(r) = Running THEN "col_allowed_chars" ELSE "done"
    /\ UNCHANGED <<spec, hints, all_allowed_chars, col_allowed_chars, board, event, isect, analysis>>

\* let col_allowed_chars = (0 .. spec.width).map(..).collect();
ColAllowedChars ==
    /\ pc = "col_allowed_chars"
    /\ LET r == [i \in 1..spec.width |->
                    get_both_allowed_chars(HintAt(spec.top_hints, i - 1),
                                           HintAt(spec.bottom_hints, i - 1),
                                           all_allowed_chars)]
       IN
        /\ outcome' = FirstPanic(r)
        /\ col_allowed_chars' = IF FirstPanic(r) = Running
                                THEN [i \in 1..spec.width |-> r[i].v] ELSE <<>>
        /\ pc' = IF FirstPanic(r) = Running THEN "Board::new" ELSE "done"
    /\ UNCHANGED <<spec, hints, all_allowed_chars, row_allowed_chars, board, event, isect, analysis>>

\* let mut board = Board::new(..);
BoardNew ==
    /\ pc = "Board::new"
    /\ LET r == Board_new(spec.width, spec.height, row_allowed_chars, col_allowed_chars) IN
        /\ board' = r.board
        /\ event' = r.event
        /\ outcome' = IF r.ok THEN Running ELSE Exit1("had no possibilities!")
        /\ pc' = IF r.ok THEN "solving" ELSE "done"
    /\ UNCHANGED <<spec, hints, all_allowed_chars, row_allowed_chars, col_allowed_chars,
                   isect, analysis>>

\* while board.still_undecided() { if !board.make_progress(&hints) { return Err(..) } }
MakeProgress ==
    /\ pc = "solving"
    /\ still_undecided(board)
    /\ LET r == make_progress(board, hints) IN
        /\ board' = r.board
        /\ event' = r.event
        /\ outcome' = IF ~r.found
                      THEN Err("We couldn't make any more progress. Stumped!")
                      ELSE r.res
        /\ pc' = IF r.found /\ r.res = Running THEN "solving" ELSE "done"
    /\ UNCHANGED <<spec, hints, all_allowed_chars, row_allowed_chars, col_allowed_chars,
                   isect, analysis>>

\* println!("Solved it! ..."); Ok(())
Solved ==
    /\ pc = "solving"
    /\ ~still_undecided(board)
    /\ outcome' = [kind |-> "Ok", msg |-> "Solved it!"]
    /\ pc' = "done"
    /\ UNCHANGED <<spec, hints, all_allowed_chars, row_allowed_chars, col_allowed_chars,
                   board, event, isect, analysis>>

Next ==
    \/ FromSpec
    \/ GetAllAllowedChars
    \/ RowAllowedChars
    \/ ColAllowedChars
    \/ BoardNew
    \/ MakeProgress
    \/ Solved

Spec == Init /\ [][Next]_vars

----------------------------------------------------------------------------
(* allowed_char_intersection, turn by turn, on sorted deduplicated inputs *)

IsectInit ==
    /\ pc = "allowed_char_intersection"
    /\ \E a \in ByteSets, b \in ByteSets :
          isect = [a |-> a, b |-> b, result |-> <<>>, arg_a |-> a, arg_b |-> b]
    /\ spec = NoPuzzle
    /\ hints = NoHints
    /\ all_allowed_chars = <<>>
    /\ row_allowed_chars = <<>>
    /\ col_allowed_chars = <<>>
    /\ board = NoBoard
    /\ outcome = Running
    /\ event = NoEvent
    /\ analysis = NoAnalysis

\* while !a.is_empty() && !b.is_empty() { .. }
IsectTurn ==
    /\ pc = "allowed_char_intersection"
    /\ isect.a # <<>> /\ isect.b # <<>>
    /\ isect' = IntersectionTurn(isect)
    /\ UNCHANGED <<pc, spec, hints, all_allowed_chars, row_allowed_chars, col_allowed_chars,
                   board, outcome, event, analysis>>

\* result
IsectReturn ==
    /\ pc = "allowed_char_intersection"
    /\ isect.a = <<>> \/ isect.b = <<>>
    /\ pc' = "returned"
    /\ UNCHANGED <<isect, spec, hints, all_allowed_chars, row_allowed_chars,
                   col_allowed_chars, board, outcome, event, analysis>>

IsectNext ==
    \/ IsectTurn
    \/ IsectReturn

SpecIsect == IsectInit /\ [][IsectNext]_vars

----------------------------------------------------------------------------
(* main with make_progress free to process any target of an undecided cell  *)
(* that is not blacklisted, whatever its complexity                          *)

OrderHints == {"A.*", "B.*", "[A-C]+", "[^C]B*"}

AnyOrderInit ==
    /\ pc = "from_spec"
    /\ spec \in OneHintPuzzles(SmallDims, OrderHints)
    /\ hints = NoHints
    /\ all_allowed_chars = <<>>
    /\ row_allowed_chars = <<>>
    /\ col_allowed_chars = <<>>
    /\ board = NoBoard
    /\ outcome = Running
    /\ event = NoEvent
    /\ isect = [a |-> <<>>, b |-> <<>>, result |-> <<>>, arg_a |-> <<>>, arg_b |-> <<>>]
    /\ analysis = NoAnalysis

\* The step of MakeProgress, once make_progress has returned r
Returned(r) ==
    /\ board' = r.board
    /\ event' = r.event
    /\ outcome' = IF ~r.found
                  THEN Err("We couldn't make any more progress. Stumped!")
                  ELSE r.res
    /\ pc' = IF r.found /\ r.res = Running THEN "solving" ELSE "done"
    /\ UNCHANGED <<spec, hints, all_allowed_chars, row_allowed_chars, col_allowed_chars,
                   isect, analysis>>

MakeProgressAnyTarget ==
    /\ pc = "solving"
    /\ still_undecided(board)
    /\ \E index \in 0..(Len(board.undecided_cells) - 1), is_column \in BOOLEAN :
          LET x == board.undecided_cells[index + 1][1]
              y == board.undecided_cells[index + 1][2]
              complexity == tree_complexity(board, x, y)[IF is_column THEN 2 ELSE 1]
          IN  /\ ~binary_search(board.progress_free_cells, <<is_column, x, y>>).found
              /\ Returned(Process(board, hints, Choice(complexity, is_column, index, x, y)))

\* if best_choice.is_none() { return false }
Stumped ==
    /\ pc = "solving"
    /\ still_undecided(board)
    /\ \A index \in 0..(Len(board.undecided_cells) - 1), is_column \in BOOLEAN :
          binary_search(board.progress_free_cells,
                        <<is_column, board.undecided_cells[index + 1][1],
                          board.undecided_cells[index + 1][2]>>).found
    /\ Returned(Step(FALSE, board, Running, Event("stumped", FALSE, 0, 0, <<>>)))

AnyOrderNext ==
    \/ FromSpec
    \/ GetAllAllowedChars
    \/ RowAllowedChars
    \/ ColAllowedChars
    \/ BoardNew
    \/ MakeProgressAnyTarget
    \/ Stumped
    \/ Solved

SpecAnyOrder == AnyOrderInit /\ [][AnyOrderNext]_vars

----------------------------------------------------------------------------
(* get_allowed_chars on the text of a hint: the text is a sequence of       *)
(* one-character strings over a small alphabet                              *)

MaxText == 5

Alphabet == {"A", "1", "\\", "(", ")"}

Digits == {"0", "1", "2", "3", "4", "5", "6", "7", "8", "9"}

CharByte(c) ==
    CASE c = "A" -> 65 [] c = "1" -> 49 [] c = "\\" -> 92 [] c = "(" -> 40 [] c = ")" -> 41

\* BACKREFERENCE_STRIPPING_REGEX.replace_all(hint, ""): every match of \\[0-9],
\* leftmost first and not overlapping, is removed
RECURSIVE replace_all(_, _)
replace_all(hint, i) ==
    IF i > Len(hint) THEN <<>>
    ELSE IF hint[i] = "\\" /\ i < Len(hint) /\ hint[i + 1] \in Digits
    THEN replace_all(hint, i + 2)
    ELSE <<hint[i]>> \o replace_all(hint, i + 1)

\* The concatenation the parser returns for the items of one group
Items(asts) ==
    IF asts = <<>> THEN Empty
    ELSE IF Len(asts) = 1 THEN asts[1]
    ELSE Concat(asts)

ParseError == [ok |-> FALSE, ast |-> Empty]

\* regex_syntax's Parser::parse on the alphabet: literals, groups, and the
\* escapes \\ \( \) (literals), \A (start of text) and \1 (an error: the
\* parser has no backreferences).  open holds the items of every group not
\* closed yet, the innermost last.
RECURSIVE ParseFrom(_, _, _, _)
ParseFrom(pattern, i, open, groups) ==
    LET top == open[Len(open)]
        push(ast) == [open EXCEPT ![Len(open)] = Append(top, ast)]
    IN
    IF i > Len(pattern)
    THEN IF Len(open) = 1 THEN [ok |-> TRUE, ast |-> Items(top)] ELSE ParseError
    ELSE CASE pattern[i] = "\\" ->
                 IF i = Len(pattern) THEN ParseError
                 ELSE IF pattern[i + 1] \in Digits THEN ParseError
                 ELSE IF pattern[i + 1] = "A"
                 THEN ParseFrom(pattern, i + 2, push(Assertion("StartText")), groups)
                 ELSE ParseFrom(pattern, i + 2, push(Literal(CharByte(pattern[i + 1]))), groups)
           [] pattern[i] = "(" ->
                 ParseFrom(pattern, i + 1, Append(open, <<>>), groups + 1)
           [] pattern[i] = ")" ->
                 IF Len(open) = 1 THEN ParseError
                 ELSE ParseFrom(pattern, i + 1,
                                [k \in 1..(Len(open) - 1) |->
                                    IF k = Len(open) - 1
                                    THEN Append(open[k], Group(groups, Items(top)))
                                    ELSE open[k]],
                                groups)
           [] OTHER -> ParseFrom(pattern, i + 1, push(Literal(CharByte(pattern[i]))), groups)

parse(pattern) == ParseFrom(pattern, 1, <<<<>>>>, 0)

\* add_allowed_chars_from_ast(&mut result, &ast, all_allowed_chars); result.sort()
walked(ast, universe) ==
    LET result == add_allowed_chars_from_ast(Acc(<<>>), ast, universe)
    IN  IF result.panic THEN result ELSE Acc(Sort(result.v))

UnwrapPanic == Panicked("called Result::unwrap() on an Err value")

\* get_allowed_chars, of a text
get_allowed_chars_of(hint, universe) ==
    LET ast == parse(replace_all(hint, 1))
    IN  IF ~ast.ok THEN UnwrapPanic ELSE walked(ast.ast, universe)

Texts == UNION {[1..n -> Alphabet] : n \in 0..MaxText}

Universes == {<<65>>, <<40, 41, 49, 65, 92>>}

StripInit ==
    /\ pc = "replace_all"
    /\ \E hint \in Texts, universe \in Universes :
          analysis = [NoAnalysis EXCEPT !.hint = hint, !.universe = universe]
    /\ spec = NoPuzzle
    /\ hints = NoHints
    /\ all_allowed_chars = <<>>
    /\ row_allowed_chars = <<>>
    /\ col_allowed_chars = <<>>
    /\ board = NoBoard
    /\ outcome = Running
    /\ event = NoEvent
    /\ isect = [a |-> <<>>, b |-> <<>>, result |-> <<>>, arg_a |-> <<>>, arg_b |-> <<>>]

StripFrame == <<spec, hints, all_allowed_chars, row_allowed_chars, col_allowed_chars, board,
                event, isect>>

\* let stripped_hint = BACKREFERENCE_STRIPPING_REGEX.replace_all(hint, "");
StripHint ==
    /\ pc = "replace_all"
    /\ analysis' = [analysis EXCEPT !.stripped_hint = replace_all(analysis.hint, 1)]
    /\ pc' = "parse"
    /\ UNCHANGED <<outcome, StripFrame>>

\* let ast = parser.parse(&stripped_hint).unwrap();
ParseHint ==
    /\ pc = "parse"
    /\ LET ast == parse(analysis.stripped_hint) IN
        /\ analysis' = [analysis EXCEPT !.ast = ast.ast,
                                        !.result = IF ast.ok THEN @ ELSE UnwrapPanic]
        /\ outcome' = IF ast.ok THEN Running ELSE Panic(UnwrapPanic.msg)
        /\ pc' = IF ast.ok THEN "add_allowed_chars_from_ast" ELSE "returned"
    /\ UNCHANGED StripFrame

\* add_allowed_chars_from_ast(..); result.sort(); Ok(result)
WalkHint ==
    /\ pc = "add_allowed_chars_from_ast"
    /\ LET result == walked(analysis.ast, analysis.universe) IN
        /\ analysis' = [analysis EXCEPT !.result = result]
        /\ outcome' = IF result.panic THEN Panic(result.msg) ELSE Running
    /\ pc' = "returned"
    /\ UNCHANGED StripFrame

StripNext ==
    \/ StripHint
    \/ ParseHint
    \/ WalkHint

SpecStrip == StripInit /\ [][StripNext]_vars

----------------------------------------------------------------------------
(* get_allowed_chars on a syntax tree and a universe of any content: the    *)
(* walk and the sort that follow the parse                                   *)

\* The trees of the catalogue, and trees with a bracket after a construct that
\* stands for any byte
Trees ==
    {HintCatalog[h].ast : h \in DOMAIN HintCatalog}
    \cup {Concat(<<Dot, BrAB>>),
          Concat(<<ClassPerl("Digit", TRUE), Literal(ch.A)>>),
          Concat(<<Literal(ch.A), ClassBracketed(TRUE, SetItem(ItemLiteral(ch.B))), BrAB>>)}

WalkInit ==
    /\ pc = "add_allowed_chars_from_ast"
    /\ \E ast \in Trees, universe \in ByteSets :
          analysis = [NoAnalysis EXCEPT !.ast = ast, !.universe = universe]
    /\ spec = NoPuzzle
    /\ hints = NoHints
    /\ all_allowed_chars = <<>>
    /\ row_allowed_chars = <<>>
    /\ col_allowed_chars = <<>>
    /\ board = NoBoard
    /\ outcome = Running
    /\ event = NoEvent
    /\ isect = [a |-> <<>>, b |-> <<>>, result |-> <<>>, arg_a |-> <<>>, arg_b |-> <<>>]

SpecWalk == WalkInit /\ [][WalkHint]_vars

----------------------------------------------------------------------------
(* The vocabulary of the properties *)

Created == board # NoBoard

CellIndices == 1..(board.width * board.height)

XY(k) == <<CellX(k - 1, board.width), CellY(k - 1, board.width)>>

\* What the row and the column of a cell allow
RowSet(k) == Range(row_allowed_chars[XY(k)[2] + 1])

ColSet(k) == Range(col_allowed_chars[XY(k)[1] + 1])

Candidates(b, k) == Range(b.allowed_chars[k])

Undecided(b) == {k \in 1..Len(b.allowed_chars) : Len(b.allowed_chars[k]) > 1}

Success == outcome = [kind |-> "Ok", msg |-> "Solved it!"]

SearchExhausted == outcome = Err("We couldn't make any more progress. Stumped!")

ContradictionInStep == outcome = Exit1("ran out of possibilities!")

ContradictionAtCreation == outcome = Exit1("had no possibilities!")

ConfigurationError ==
    outcome \in {Err("Puzzle does not have a vertical hint for every column!"),
                 Err("Puzzle does not have a horizontal hint for every row!")}

PatternError ==
    \/ outcome.kind = "Err" /\ outcome.msg \in {"Couldn't compile top hint",
            "Couldn't compile bottom hint", "Couldn't compile left hint",
            "Couldn't compile right hint"}
    \/ outcome.kind = "panic" /\ outcome.msg \in {
            "ASCII control character in regex!!!",
            "Non-ASCII-printable-character in regex!!!!!",
            "No ASCII classes in regex crossword ALLOWED!",
            "HEY! NO UNICODE CLASSES EVEN IN SETS!",
            "No nesting of brackets in brackets! That's too brackish!",
            "No unicode classes in regex crossword ALLOWED!",
            "No binary ops in regex crossword ALLOWED!"}

\* A call of make_progress
RefinementStep == pc = "solving" /\ still_undecided(board) /\ pc' \in {"solving", "done"}

Blacklist(b) == Range(b.progress_free_cells)

----------------------------------------------------------------------------
(* Properties *)

\* C1. Monotonic shrink: while a Board exists every cell's candidate set is a
\* subset of the set Board::new gave it (the intersection of what its row and
\* its column allow), and no step of the run adds a byte to any cell.
C1_MonotonicShrink ==
    /\ [](Created => \A k \in CellIndices :
                        Candidates(board, k) \subseteq (RowSet(k) \cap ColSet(k)))
    /\ [][Created => \A k \in CellIndices :
                        Candidates(board', k) \subseteq Candidates(board, k)]_vars

\* A step has removed candidates of a cell and left it undecided.
C1_Witness ==
    /\ pc = "solving"
    /\ event.what = "pruned"
    /\ \E k \in CellIndices : /\ Candidates(board, k) # RowSet(k) \cap ColSet(k)
                              /\ Len(board.allowed_chars[k]) > 1

\* C2. While a Board exists, undecided_cells holds exactly the coordinates of
\* the cells with more than one candidate, each once.
C2_UndecidedExact ==
    Created =>
        /\ \A k \in CellIndices :
              (Len(board.allowed_chars[k]) > 1) <=> (XY(k) \in Range(board.undecided_cells))
        /\ \A i, j \in 1..Len(board.undecided_cells) :
              board.undecided_cells[i] = board.undecided_cells[j] => i = j
        /\ Range(board.undecided_cells) \subseteq {XY(k) : k \in CellIndices}

\* A step has decided a cell while others are still undecided.
C2_Witness ==
    /\ pc = "solving"
    /\ event.what = "decided"
    /\ Len(board.undecided_cells) >= 2

\* C3. A step that removes a candidate from any cell ends with an empty
\* blacklist.
C3_BlacklistCleared ==
    [][(Created /\ board'.allowed_chars # board.allowed_chars)
            => board'.progress_free_cells = <<>>]_vars

\* A step has pruned a cell, the blacklist is empty and the search goes on.
C3_Witness ==
    /\ pc = "solving"
    /\ event.what \in {"pruned", "decided"}
    /\ board.progress_free_cells = <<>>
    /\ still_undecided(board)

\* The sum of the sizes of the candidate sets
RECURSIVE TotalCandidates(_, _)
TotalCandidates(b, k) ==
    IF k > Len(b.allowed_chars) THEN 0
    ELSE Len(b.allowed_chars[k]) + TotalCandidates(b, k + 1)

\* What is left to do: candidates to remove, then targets to try
Rank(b) ==
    LET targets == 2 * b.width * b.height IN
    TotalCandidates(b, 1) * (targets + 1) + (targets - Len(b.progress_free_cells))

\* C4. The main loop ends, in exactly one of success (no undecided cell is
\* left), search exhausted (no eligible target, undecided cells left) or
\* contradiction (a step found no surviving candidate): a step that does not end
\* the run adds one new entry to the blacklist or strictly shrinks one candidate
\* set, and so lowers a rank that is never negative.
C4_Terminates ==
    /\ [](Created => Rank(board) >= 0)
    /\ []((Created /\ pc = "done") =>
            /\ Success \/ SearchExhausted \/ ContradictionInStep
            /\ Success => ~still_undecided(board)
            /\ SearchExhausted =>
                  /\ still_undecided(board)
                  /\ \A k \in Undecided(board) : \A is_column \in BOOLEAN :
                        <<is_column, XY(k)[1], XY(k)[2]>> \in Blacklist(board)
            /\ ContradictionInStep => event.what = "0")
    /\ [][(RefinementStep /\ pc' = "solving") =>
            /\ Rank(board') < Rank(board)
            /\ \/ /\ board'.allowed_chars = board.allowed_chars
                  /\ \E t \in BOOLEAN \X (0..(board.width - 1)) \X (0..(board.height - 1)) :
                        /\ t \notin Blacklist(board)
                        /\ Blacklist(board') = Blacklist(board) \cup {t}
                        /\ Len(board'.progress_free_cells) = Len(board.progress_free_cells) + 1
               \/ \E k \in CellIndices :
                        /\ Candidates(board', k) \subseteq Candidates(board, k)
                        /\ Len(board'.allowed_chars[k]) < Len(board.allowed_chars[k])
                        /\ \A o \in CellIndices \ {k} :
                              board'.allowed_chars[o] = board.allowed_chars[o]]_vars

\* A run has ended stumped after steps that pruned and steps that did not.
C4_Witness ==
    /\ pc = "done"
    /\ SearchExhausted
    /\ Len(board.progress_free_cells) >= 2
    /\ \E k \in CellIndices : Candidates(board, k) # RowSet(k) \cap ColSet(k)

\* C5. On sorted deduplicated a and b, allowed_char_intersection returns, in
\* strictly ascending order, exactly the bytes in both; a with itself gives a,
\* and (b, a) gives the same as (a, b).  Every turn of its loop shortens a or b.
C5_Intersection ==
    /\ [](pc = "returned" =>
            /\ IsByteSet(isect.result)
            /\ Range(isect.result) = Range(isect.arg_a) \cap Range(isect.arg_b)
            /\ isect.arg_a = isect.arg_b => isect.result = isect.arg_a
            /\ isect.result = allowed_char_intersection(isect.arg_b, isect.arg_a))
    /\ [][pc = "allowed_char_intersection" /\ pc' = pc =>
            Len(isect'.a) + Len(isect'.b) < Len(isect.a) + Len(isect.b)]_vars

\* The intersection of two different overlapping sets has been returned.
C5_Witness ==
    /\ pc = "returned"
    /\ isect.result # <<>>
    /\ Len(isect.result) < Len(isect.arg_a)
    /\ Len(isect.result) < Len(isect.arg_b)

\* The cells of the puzzle, before there is a Board
PuzzleCells == 1..(spec.width * spec.height)

PuzzleXY(k) == <<CellX(k - 1, spec.width), CellY(k - 1, spec.width)>>

\* main has computed what every row and every column allows
LinesAnalysed == pc \in {"Board::new", "solving"} \/ (pc = "done" /\ col_allowed_chars # <<>>)

DisjointCells ==
    {k \in PuzzleCells : Range(row_allowed_chars[PuzzleXY(k)[2] + 1])
                            \cap Range(col_allowed_chars[PuzzleXY(k)[1] + 1]) = {}}

\* C6. If what the row and what the column of some cell allow are disjoint,
\* Board::new exits at once, reporting the first such cell in row-major order
\* and the two sets; no Board comes to exist and no refinement step runs.
C6_DisjointCellExits ==
    (LinesAnalysed /\ DisjointCells # {} /\ pc # "Board::new") =>
        LET k == CHOOSE k \in DisjointCells : \A o \in DisjointCells : k <= o IN
        /\ pc = "done"
        /\ ContradictionAtCreation
        /\ board = NoBoard
        /\ event = Event("had no possibilities", FALSE, PuzzleXY(k)[1], PuzzleXY(k)[2],
                         <<row_allowed_chars[PuzzleXY(k)[2] + 1],
                           col_allowed_chars[PuzzleXY(k)[1] + 1]>>)

\* Board::new has exited at the first of two disjoint cells.
C6_Witness ==
    /\ pc = "done"
    /\ ContradictionAtCreation
    /\ event.what = "had no possibilities"
    /\ Cardinality(DisjointCells) >= 2

LineWithoutHint ==
    \/ \E x \in 0..(spec.width - 1) :
          HintAt(spec.top_hints, x) = None /\ HintAt(spec.bottom_hints, x) = None
    \/ \E y \in 0..(spec.height - 1) :
          HintAt(spec.left_hints, y) = None /\ HintAt(spec.right_hints, y) = None

\* C7. A puzzle in which some column has neither a top nor a bottom hint, or
\* some row neither a left nor a right hint, ends with ConfigurationError, and
\* no refinement step runs.
C7_MissingHintIsConfigurationError ==
    LineWithoutHint =>
        /\ pc # "solving"
        /\ pc = "done" => ConfigurationError /\ board = NoBoard

RECURSIVE ItemUnsupported(_)
ItemUnsupported(item) ==
    CASE item.t = "Empty" -> FALSE
      [] item.t = "Literal" -> item.c < ch.space \/ item.c > ch.tilde
      [] item.t = "Range" -> \/ item.start < ch.space \/ item.start > ch.tilde
                             \/ item.end < ch.space \/ item.end > ch.tilde
      [] item.t = "Ascii" -> TRUE
      [] item.t = "Unicode" -> TRUE
      [] item.t = "Perl" -> FALSE
      [] item.t = "Bracketed" -> TRUE
      [] item.t = "Union" -> \E i \in 1..Len(item.items) : ItemUnsupported(item.items[i])

\* The tree has, at some position, a construct outside the supported subset
RECURSIVE Unsupported(_)
Unsupported(ast) ==
    CASE ast.t = "ClassUnicode" -> TRUE
      [] ast.t = "ClassBracketed" -> ast.kind.t = "BinaryOp" \/ ItemUnsupported(ast.kind.item)
      [] ast.t = "Literal" -> ast.c < ch.space \/ ast.c > ch.tilde
      [] ast.t \in {"Concat", "Alternation"} ->
            \E i \in 1..Len(ast.asts) : Unsupported(ast.asts[i])
      [] ast.t \in {"Group", "Repetition"} -> Unsupported(ast.ast)
      [] OTHER -> FALSE

PuzzleHints ==
    UNION {Range(edge.v) : edge \in {spec.top_hints, spec.bottom_hints,
                                     spec.left_hints, spec.right_hints}} \ {None}

\* C8. A puzzle with a hint that has, anywhere in its syntax tree, a construct
\* outside the supported subset or a literal outside 0x20-0x7E ends with
\* PatternError before the Board is created.
C8_UnsupportedIsPatternError ==
    (\E h \in PuzzleHints : Unsupported(HintCatalog[h].ast)) =>
        /\ pc \notin {"Board::new", "solving"}
        /\ pc = "done" => PatternError /\ board = NoBoard

\* The Board as Board::new made it
InitialBoard == Board_new(spec.width, spec.height, row_allowed_chars, col_allowed_chars).board

\* Every candidate of every undecided cell of b passes the feasibility check on
\* the cell's row and on its column
EveryCandidateFeasible(b) ==
    \A i \in 1..Len(b.undecided_cells) :
        LET x == b.undecided_cells[i][1]
            y == b.undecided_cells[i][2]
        IN  /\ really_possible_row(b, hints, x, y) = allowed_chars(b, x, y)
            /\ really_possible_col(b, hints, x, y) = allowed_chars(b, x, y)

Targets(b) == {<<is_column, c[1], c[2]>> : is_column \in BOOLEAN, c \in Range(b.undecided_cells)}

BothAB == Puzzle(1, 1, Array(<<"^[AB]$">>), NoArray, Array(<<"^[AB]$">>), NoArray)

\* How C9 says a run whose initial board is all feasible ends
EndsExhausted ==
    /\ SearchExhausted
    /\ board.allowed_chars = InitialBoard.allowed_chars
    /\ Blacklist(board) = Targets(board)
    /\ Len(board.progress_free_cells) = 2 * Len(board.undecided_cells)

\* What C9 says a step of such a run does: no candidate set changes, and the
\* step tries a target not tried before, or finds none left and stops
TriesNewTarget ==
    /\ board'.allowed_chars = board.allowed_chars
    /\ board'.undecided_cells = board.undecided_cells
    /\ pc' = "solving" =>
          /\ event'.what = "?"
          /\ <<event'.is_column, event'.x, event'.y>> \notin Blacklist(board)
          /\ Blacklist(board') =
                Blacklist(board) \cup {<<event'.is_column, event'.x, event'.y>>}
    /\ pc' = "done" =>
          /\ event'.what = "stumped"
          /\ Blacklist(board) = Targets(board)
          /\ board' = board

\* C9, as claimed.  If on the initial board every candidate of every undecided
\* cell passes the feasibility check on its row and its column, no candidate
\* set ever changes, every target of every undecided cell ends up tried, and
\* the run ends in SearchExhausted.
C9_AllFeasibleIsExhausted ==
    (Created /\ pc = "done") =>
        (EndsExhausted \/ ~EveryCandidateFeasible(InitialBoard))

\* C9, amended.  The same of an initial board with at least one undecided
\* cell: no step changes a candidate set, each step tries a target not tried
\* before, and the run ends in SearchExhausted with every target tried; the
\* 1x1 puzzle with ^[AB]$ on top and left starts with {A, B} and ends so.
C9_FeasibleUndecidedIsExhausted ==
    /\ [][(Created /\ still_undecided(InitialBoard) /\ RefinementStep) =>
                (TriesNewTarget \/ ~EveryCandidateFeasible(InitialBoard))]_vars
    /\ []((Created /\ pc = "done" /\ still_undecided(InitialBoard)) =>
                (EndsExhausted \/ ~EveryCandidateFeasible(InitialBoard)))
    /\ []((Created /\ spec = BothAB) =>
            /\ InitialBoard.allowed_chars = <<<<ch.A, ch.B>>>>
            /\ pc = "done" => SearchExhausted)

\* A run with two or more undecided cells, none of them prunable, has tried
\* all their targets and stopped.
C9_Witness ==
    /\ pc = "done"
    /\ SearchExhausted
    /\ EveryCandidateFeasible(InitialBoard)
    /\ Len(board.progress_free_cells) >= 4

AThenB == Puzzle(2, 1, Array(<<"^A$", "^B$">>), NoArray, Array(<<"^A.$">>), NoArray)

\* C10. The 2x1 puzzle with ^A.$ on the left and ^A$, ^B$ on top ends in
\* success with A at (0,0) and B at (1,0); and a cell whose row and column
\* allow exactly one common byte holds that byte from Board::new on and is never
\* on the undecided list.
C10_SingleByteDecided ==
    /\ (spec = AThenB /\ pc = "done") =>
          Success /\ board.allowed_chars = <<<<ch.A>>, <<ch.B>>>>
    /\ Created => \A k \in CellIndices :
          Cardinality(RowSet(k) \cap ColSet(k)) = 1 =>
              /\ Candidates(board, k) = RowSet(k) \cap ColSet(k)
              /\ Len(board.allowed_chars[k]) = 1
              /\ XY(k) \notin Range(board.undecided_cells)

\* The 2x1 puzzle has ended.
C10_Witness ==
    /\ spec = AThenB
    /\ pc = "done"
    /\ Success

\* C11. Analysing a hint gives what analysing the hint with every backslash-
\* digit pair removed gives.
C11_BackreferencesIgnored ==
    pc = "returned" =>
        analysis.result =
            get_allowed_chars_of(replace_all(analysis.hint, 1), analysis.universe)

\* The line of a target: the candidate sets of its cells, the pivot's place in
\* it and its two hints
TargetLine(b, is_column, x, y) ==
    IF is_column THEN [i \in 1..b.height |-> allowed_chars(b, x, i - 1)]
    ELSE [i \in 1..b.width |-> allowed_chars(b, i - 1, y)]

TargetPivot(is_column, x, y) == IF is_column THEN y ELSE x

TargetHints(is_column, x, y) ==
    IF is_column THEN <<hints.top[x + 1], hints.bottom[x + 1]>>
    ELSE <<hints.left[y + 1], hints.right[y + 1]>>

\* Every string of the line with c at the pivot and, at each other cell, one
\* of the cell's candidates
RECURSIVE LineStrings(_, _, _, _)
LineStrings(line, pivot, c, i) ==
    IF i > Len(line) THEN {<<>>}
    ELSE {<<b>> \o rest : b \in (IF i = pivot + 1 THEN {c} ELSE Range(line[i])),
                          rest \in LineStrings(line, pivot, c, i + 1)}

\* What the step that led to this state found really possible
ReallyPossible ==
    CASE event'.what = "?" -> allowed_chars(board, event'.x, event'.y)
      [] event'.what = "0" -> <<>>
      [] OTHER -> allowed_chars(board', event'.x, event'.y)

\* C12. In a refinement step a candidate c of the pivot is kept if and only if
\* some string of the line, with c at the pivot, the byte of each decided cell
\* at its place and a candidate of each other undecided cell at its place, is
\* matched by every hint of the line; the odometer tests only such strings, and
\* all of them before it rejects c.
C12_KeptIffSomeLineMatches ==
    [][(RefinementStep /\ event'.what \in {"?", "0", "decided", "pruned"}) =>
        LET is_column == event'.is_column
            x     == event'.x
            y     == event'.y
            line  == TargetLine(board, is_column, x, y)
            pivot == TargetPivot(is_column, x, y)
            top   == TargetHints(is_column, x, y)[1]
            bot   == TargetHints(is_column, x, y)[2]
            open_cell == [i \in 1..Len(line) |-> i - 1 # pivot /\ Len(line[i]) > 1]
            tested(c) == Tested(line, open_cell, [i \in 1..Len(line) |-> 0],
                                [i \in 1..Len(line) |->
                                    IF i - 1 = pivot THEN c ELSE line[i][1]],
                                top, bot)
            kept(c) == \E str \in LineStrings(line, pivot, c, 1) : Allowed(str, top, bot)
        IN  /\ ReallyPossible = SelectSeq(line[pivot + 1], kept)
            /\ \A c \in Range(line[pivot + 1]) :
                  /\ tested(c) \subseteq LineStrings(line, pivot, c, 1)
                  /\ ~kept(c) => tested(c) = LineStrings(line, pivot, c, 1)]_vars

\* A step has rejected a candidate of a pivot and kept another, on a line with
\* a decided cell and another undecided cell.
C12_Witness ==
    /\ pc = "solving"
    /\ event.what \in {"pruned", "decided"}
    /\ LET line == TargetLine(board, event.is_column, event.x, event.y)
           pivot == TargetPivot(event.is_column, event.x, event.y)
       IN  /\ \E i \in 1..Len(line) : i # pivot + 1 /\ Len(line[i]) > 1
           /\ \E i \in 1..Len(line) : i # pivot + 1 /\ Len(line[i]) = 1

\* The complexity the cache holds for a target
Cached(b, target) ==
    IF target[1] THEN tree_complexity(b, target[2], target[3])[2]
    ELSE tree_complexity(b, target[2], target[3])[1]

Eligible(b) == Targets(b) \ Blacklist(b)

\* C13. The target a refinement step processes is a target of an undecided
\* cell that is not blacklisted and whose cached complexity is no greater than
\* that of any other such target; the step reports exhaustion, changing
\* nothing, exactly when no such target is left.
C13_LeastComplexEligible ==
    [][RefinementStep =>
        /\ event'.what = "stumped" <=> Eligible(board) = {}
        /\ event'.what = "stumped" => board' = board /\ pc' = "done" /\ SearchExhausted'
        /\ event'.what # "stumped" =>
              LET target == <<event'.is_column, event'.x, event'.y>> IN
              /\ target \in Eligible(board)
              /\ \A other \in Eligible(board) : Cached(board, target) <= Cached(board, other)]_vars

\* A step has processed a target while another target, of greater complexity
\* and not blacklisted either, was left for later.
C13_Witness ==
    /\ pc = "solving"
    /\ event.what = "?"
    /\ LET target == <<event.is_column, event.x, event.y>> IN
       \E other \in Eligible(board) : Cached(board, target) < Cached(board, other)
    /\ Len(board.progress_free_cells) >= 2

\* Every candidate of the pivot of a target survives on the target's line
AllSurvive(b, is_column, x, y) ==
    LET line  == TargetLine(b, is_column, x, y)
        pivot == TargetPivot(is_column, x, y)
        top   == TargetHints(is_column, x, y)[1]
        bot   == TargetHints(is_column, x, y)[2]
    IN  \A c \in Range(line[pivot + 1]) :
            \E str \in LineStrings(line, pivot, c, 1) : Allowed(str, top, bot)

\* C14. A refinement step in which every candidate of the pivot survives
\* changes no candidate set, not the undecided list and not the complexity
\* cache: it only inserts its target into the blacklist, and reports that a
\* target was found and processed.
C14_NoPruningOnlyBlacklists ==
    [][(RefinementStep /\ event'.what # "stumped"
            /\ AllSurvive(board, event'.is_column, event'.x, event'.y)) =>
        LET target == <<event'.is_column, event'.x, event'.y>> IN
        /\ board'.allowed_chars = board.allowed_chars
        /\ board'.undecided_cells = board.undecided_cells
        /\ board'.tree_complexity = board.tree_complexity
        /\ board'.width = board.width /\ board'.height = board.height
        /\ target \notin Blacklist(board)
        /\ Blacklist(board') = Blacklist(board) \cup {target}
        /\ Len(board'.progress_free_cells) = Len(board.progress_free_cells) + 1
        /\ \A i \in 1..(Len(board'.progress_free_cells) - 1) :
              TripleLess(board'.progress_free_cells[i], board'.progress_free_cells[i + 1])
        /\ event'.what = "?"
        /\ pc' = "solving" /\ outcome' = Running]_vars

\* A step has blacklisted a target on a board that has a decided cell and a
\* blacklist begun before.
C14_Witness ==
    /\ pc = "solving"
    /\ event.what = "?"
    /\ Len(board.progress_free_cells) >= 2
    /\ \E k \in CellIndices : Len(board.allowed_chars[k]) = 1
    /\ AllSurvive(board, event.is_column, event.x, event.y)

\* The index of a cell in board.allowed_chars
CellAt(b, x, y) == x + y * b.width + 1

\* What is left of the pivot's candidates on the target's line
Survivors(b, is_column, x, y) ==
    LET line  == TargetLine(b, is_column, x, y)
        pivot == TargetPivot(is_column, x, y)
        top   == TargetHints(is_column, x, y)[1]
        bot   == TargetHints(is_column, x, y)[2]
    IN  SelectSeq(line[pivot + 1],
                  LAMBDA c : \E str \in LineStrings(line, pivot, c, 1) : Allowed(str, top, bot))

\* C15. A refinement step that prunes replaces the candidate set of the pivot
\* by what is really possible and changes no other cell's; it removes the
\* pivot from the undecided list exactly when one byte is left.  The pivot of
\* a step is an undecided cell, and a decided cell keeps its byte and is never
\* undecided again.
C15_PruneChangesPivotOnly ==
    [][RefinementStep =>
        /\ event'.what \in {"pruned", "decided"} =>
              LET pivot == CellAt(board, event'.x, event'.y)
                  really_possible == Survivors(board, event'.is_column, event'.x, event'.y)
              IN  /\ board'.allowed_chars[pivot] = really_possible
                  /\ Len(really_possible) < Len(board.allowed_chars[pivot])
                  /\ \A k \in CellIndices \ {pivot} :
                        board'.allowed_chars[k] = board.allowed_chars[k]
                  /\ Range(board'.undecided_cells) =
                        IF Len(really_possible) = 1
                        THEN Range(board.undecided_cells) \ {<<event'.x, event'.y>>}
                        ELSE Range(board.undecided_cells)
                  /\ Len(board'.undecided_cells) =
                        IF Len(really_possible) = 1
                        THEN Len(board.undecided_cells) - 1
                        ELSE Len(board.undecided_cells)
        /\ event'.what # "stumped" =>
              /\ <<event'.x, event'.y>> \in Range(board.undecided_cells)
              /\ Len(allowed_chars(board, event'.x, event'.y)) > 1
        /\ \A k \in CellIndices :
              Len(board.allowed_chars[k]) = 1 =>
                  /\ board'.allowed_chars[k] = board.allowed_chars[k]
                  /\ XY(k) \notin Range(board'.undecided_cells)]_vars

\* A step has decided a cell that was not the first of the undecided list: a
\* cell before it is still undecided.
C15_Witness ==
    /\ pc = "solving"
    /\ event.what = "decided"
    /\ \E i \in 1..Len(board.undecided_cells) :
          \/ board.undecided_cells[i][2] < event.y
          \/ board.undecided_cells[i][2] = event.y /\ board.undecided_cells[i][1] < event.x

\* C16. No cell of a live Board has an empty candidate set: a step that finds
\* nothing really possible ends the run with a contradiction that names the
\* pivot and the axis and gives the candidates it started with, and stores
\* nothing.
C16_NeverEmpty ==
    /\ [](Created => \A k \in CellIndices : Len(board.allowed_chars[k]) >= 1)
    /\ []((ContradictionInStep \/ event.what = "0") =>
            /\ pc = "done" /\ ContradictionInStep /\ event.what = "0"
            /\ event.sets = <<allowed_chars(board, event.x, event.y)>>
            /\ Len(allowed_chars(board, event.x, event.y)) > 1)
    /\ [][(RefinementStep /\ event'.what # "stumped"
              /\ Survivors(board, event'.is_column, event'.x, event'.y) = <<>>) =>
            /\ event' = Event("0", event'.is_column, event'.x, event'.y,
                              <<allowed_chars(board, event'.x, event'.y)>>)
            /\ pc' = "done" /\ ContradictionInStep'
            /\ board'.allowed_chars = board.allowed_chars]_vars
    /\ []((ContradictionAtCreation \/ event.what = "had no possibilities") =>
            pc = "done" /\ board = NoBoard)

\* A step has found nothing really possible for its pivot and ended the run.
C16_Witness ==
    /\ pc = "done"
    /\ ContradictionInStep
    /\ event.what = "0"
    /\ Created

\* The product of the sizes of the candidate sets of a line
RECURSIVE SizeProduct(_, _)
SizeProduct(line, i) ==
    IF i > Len(line) THEN 1 ELSE Len(line[i]) * SizeProduct(line, i + 1)

\* C17. The complexities cached for an undecided cell are the product of the
\* sizes of the candidate sets of its row and that of its column, at Board
\* creation and after recalculate_tree_complexity.
C17_ComplexityIsSizeProduct ==
    (pc = "solving" /\ event.what \in {"", "pruned", "decided"}) =>
        \A i \in 1..Len(board.undecided_cells) :
            LET x == board.undecided_cells[i][1]
                y == board.undecided_cells[i][2]
                computed == \/ event = NoEvent
                            \/ event.what # "" /\ event.is_column /\ x = event.x
                            \/ event.what # "" /\ ~event.is_column /\ y = event.y
            IN  computed => tree_complexity(board, x, y) =
                                <<SizeProduct(TargetLine(board, FALSE, x, y), 1),
                                  SizeProduct(TargetLine(board, TRUE, x, y), 1)>>

\* C18. For every undecided cell the cached pair of complexities is the pair
\* recalculate_tree_complexity would compute from the candidate sets as they
\* are.
C18_CacheNeverDrifts ==
    (Created /\ pc = "solving") =>
        \A i \in 1..Len(board.undecided_cells) :
            LET x == board.undecided_cells[i][1]
                y == board.undecided_cells[i][2]
            IN  tree_complexity(board, x, y) =
                    tree_complexity(recalculate_tree_complexity(board, x, y), x, y)

\* C19. Whatever eligible target each step processes, a puzzle's run ends as
\* the run by least complexity ends, and a successful one with the same grid.
C19_OrderDoesNotMatter ==
    (pc = "done" /\ Created) =>
        LET by_complexity == main_loop(InitialBoard, hints) IN
        /\ outcome = by_complexity.outcome
        /\ Success => board.allowed_chars = by_complexity.board.allowed_chars

\* The bytes the restricted analysis of a hint gives
Restricted(hint) == Range(get_allowed_chars(hint, all_allowed_chars).v)

\* What a line with these hints allows, as C20 has it
LineAllowed(hint_a, hint_b) ==
    IF hint_b = None THEN Restricted(hint_a)
    ELSE IF hint_a = None THEN Restricted(hint_b)
    ELSE Restricted(hint_a) \cap Restricted(hint_b)

\* C20. At Board creation the candidate set of every cell is the intersection
\* of what its row and what its column allow, and a line allows what the
\* restricted analysis of its one hint gives or, when it has two hints, what
\* the restricted analyses of both have in common.
C20_CellIsIntersection ==
    /\ LinesAnalysed =>
          /\ \A y \in 0..(spec.height - 1) :
                /\ Range(row_allowed_chars[y + 1]) =
                      LineAllowed(HintAt(spec.left_hints, y), HintAt(spec.right_hints, y))
                /\ IsByteSet(row_allowed_chars[y + 1])
          /\ \A x \in 0..(spec.width - 1) :
                /\ Range(col_allowed_chars[x + 1]) =
                      LineAllowed(HintAt(spec.top_hints, x), HintAt(spec.bottom_hints, x))
                /\ IsByteSet(col_allowed_chars[x + 1])
    /\ (pc = "solving" /\ event = NoEvent) =>
          /\ board.width = spec.width /\ board.height = spec.height
          /\ Len(board.allowed_chars) = spec.width * spec.height
          /\ \A k \in CellIndices :
                /\ Candidates(board, k) = RowSet(k) \cap ColSet(k)
                /\ IsByteSet(board.allowed_chars[k])

\* A Board has been created for a puzzle with a line whose two hints do not
\* allow the same bytes and a cell whose row and column do not either.
C20_Witness ==
    /\ pc = "solving"
    /\ event = NoEvent
    /\ \E x \in 0..(spec.width - 1) :
          /\ HintAt(spec.top_hints, x) # None
          /\ HintAt(spec.bottom_hints, x) # None
          /\ Restricted(HintAt(spec.top_hints, x)) # Restricted(HintAt(spec.bottom_hints, x))
    /\ \E k \in CellIndices : RowSet(k) # ColSet(k)

RECURSIVE ItemStandsForAny(_)
ItemStandsForAny(item) ==
    CASE item.t = "Perl" -> item.negated
      [] item.t = "Union" -> \E i \in 1..Len(item.items) : ItemStandsForAny(item.items[i])
      [] OTHER -> FALSE

\* The tree has, at some position, a Dot, a negated Perl class or a negated
\* bracket
RECURSIVE StandsForAny(_)
StandsForAny(ast) ==
    CASE ast.t = "Dot" -> TRUE
      [] ast.t = "ClassPerl" -> ast.negated
      [] ast.t = "ClassBracketed" ->
            ast.negated \/ (ast.kind.t = "Item" /\ ItemStandsForAny(ast.kind.item))
      [] ast.t \in {"Concat", "Alternation"} ->
            \E i \in 1..Len(ast.asts) : StandsForAny(ast.asts[i])
      [] ast.t \in {"Group", "Repetition"} -> StandsForAny(ast.ast)
      [] OTHER -> FALSE

\* get_all_allowed_chars has returned the universe of the puzzle
UniverseKnown == pc \in {"row_allowed_chars", "col_allowed_chars", "Board::new", "solving"}

\* C22. The restricted analysis of a hint that has a Dot, a negated Perl class
\* or a negated bracket anywhere returns, against the universe of its puzzle,
\* exactly that universe, whatever else the hint has.
C22_AnyByteGivesUniverse ==
    UniverseKnown =>
        \A h \in PuzzleHints :
            StandsForAny(HintCatalog[h].ast) =>
                get_allowed_chars(h, all_allowed_chars) = Acc(all_allowed_chars)

\* C23. Once from_spec has accepted a puzzle, get_both_allowed_chars is never
\* called for a line with neither hint, and no run ends in its panic for that
\* case.
C23_NeitherHintNeverPanics ==
    /\ outcome # Panic("No hint for this row/column!?")
    /\ pc = "row_allowed_chars" =>
          \A y \in 0..(spec.height - 1) :
              HintAt(spec.left_hints, y) # None \/ HintAt(spec.right_hints, y) # None
    /\ pc = "col_allowed_chars" =>
          \A x \in 0..(spec.width - 1) :
              HintAt(spec.top_hints, x) # None \/ HintAt(spec.bottom_hints, x) # None

\* The strings of the decided bytes of a row and of a column
RowString(b, y) == [i \in 1..b.width |-> allowed_chars(b, i - 1, y)[1]]

ColString(b, x) == [i \in 1..b.height |-> allowed_chars(b, x, i - 1)[1]]

\* C24. When solving ends in success every hint of a row matches the string
\* of the row's decided bytes and every hint of a column matches the string of
\* the column's, whichever way the cells of the line were decided.
C24_SolvedGridMatchesHints ==
    Success =>
        /\ \A y \in 0..(board.height - 1) :
              Allowed(RowString(board, y), hints.left[y + 1], hints.right[y + 1])
        /\ \A x \in 0..(board.width - 1) :
              Allowed(ColString(board, x), hints.top[x + 1], hints.bottom[x + 1])

\* The grid g satisfies every hint of every row and of every column of b
Satisfies(g, b) ==
    /\ \A y \in 0..(b.height - 1) :
          Allowed([i \in 1..b.width |-> g[i + y * b.width]],
                  hints.left[y + 1], hints.right[y + 1])
    /\ \A x \in 0..(b.width - 1) :
          Allowed([i \in 1..b.height |-> g[x + 1 + (i - 1) * b.width]],
                  hints.top[x + 1], hints.bottom[x + 1])

\* The full grids that take every cell from its initial candidate set and
\* satisfy every hint
Solutions ==
    {g \in LineStrings(InitialBoard.allowed_chars, -1, 0, 1) : Satisfies(g, InitialBoard)}

\* C25. Refinement never removes a solution: a grid that satisfies every hint
\* and lies within the initial candidate sets lies within the candidate sets
\* after every refinement step, and a contradiction raised by a refinement step
\* means that there is no such grid.  Stated of the states a step that found
\* fewer candidates leads to: no other step changes a candidate set.
C25_NoSolutionLost ==
    (pc \in {"solving", "done"} /\ event.what \in {"pruned", "decided", "0"} /\ ~Success) =>
        LET solutions == Solutions IN
        /\ \A g \in solutions : \A k \in CellIndices : g[k] \in Candidates(board, k)
        /\ ContradictionInStep => solutions = {}

\* A refinement step has removed a candidate from a board of several cells
\* that has a solution.
C25_Witness ==
    /\ pc \in {"solving", "done"}
    /\ event.what \in {"pruned", "decided"}
    /\ board.width * board.height > 1
    /\ Solutions # {}

\* The feasibility check of a target on the current candidate sets keeps
\* every candidate of the target's cell
StillValid(b, target) ==
    LET x == target[2]
        y == target[3]
    IN  allowed_chars(b, x, y) =
            IF target[1] THEN really_possible_col(b, hints, x, y)
            ELSE really_possible_row(b, hints, x, y)

\* C26. SearchExhausted is reported only at a line-local fixpoint: every
\* blacklist entry is valid for the current board, and where a step finds no
\* eligible target the feasibility check of every undecided cell on its row
\* and on its column would keep every candidate of the cell.
C26_ExhaustedAtFixpoint ==
    (pc \in {"solving", "done"} /\ Created) =>
        /\ \A target \in Blacklist(board) : StillValid(board, target)
        /\ (still_undecided(board) /\ Eligible(board) = {}) =>
              \A target \in Targets(board) : StillValid(board, target)
        /\ SearchExhausted =>
              /\ still_undecided(board)
              /\ \A target \in Targets(board) : StillValid(board, target)

\* The search is exhausted on a board that a refinement step had changed.
C26_Witness ==
    /\ SearchExhausted
    /\ board.allowed_chars # InitialBoard.allowed_chars
    /\ Cardinality(Undecided(board)) >= 2

\* C27. The blacklist is strictly ascending in (axis, x, y) order, every
\* entry names a cell that is undecided now, no undecided cell has more than
\* two entries, and make_progress never finds the target it tried in the
\* blacklist already.
C27_BlacklistSortedAndCurrent ==
    LET list == board.progress_free_cells IN
    /\ \A i \in 1..(Len(list) - 1) : TripleLess(list[i], list[i + 1])
    /\ \A i \in 1..Len(list) :
          /\ <<list[i][2], list[i][3]>> \in Range(board.undecided_cells)
          /\ Len(allowed_chars(board, list[i][2], list[i][3])) > 1
    /\ \A cell \in Range(board.undecided_cells) :
          Cardinality({i \in 1..Len(list) : <<list[i][2], list[i][3]>> = cell}) <= 2
    /\ outcome # Panic("If it were already there, why'd we try it!?")

\* The blacklist holds three targets or more, a row target inserted before
\* a column target among them.
C27_Witness ==
    LET list == board.progress_free_cells IN
    /\ Len(list) >= 3
    /\ ~list[1][1]
    /\ list[Len(list)][1]

====
